---- MODULE Spec2Model ----
(***************************************************************************)
(* MediQuery data pipeline.                                                *)
(*                                                                         *)
(*   Spec      the ETL run of process_data.py: main(), its four batching   *)
(*             loops, the readers wired into main and bulk_index.          *)
(*   FairSpec  the same run, which as a single-threaded program always     *)
(*             takes its next step.                                        *)
(*   EnhSpec   the patient generators of the enhanced processors           *)
(*             (mimic_processor.py, synthea_processor.py) and the          *)
(*             assembly of one patient document per row.                   *)
(*   DeriveSpec the keyword classifiers of the two enhanced processors,    *)
(*             applied to condition descriptions.                          *)
(*   CategorySpec the keyword categorizers of the two enhanced processors, *)
(*             applied to condition descriptions.                          *)
(*   ClinicalSpec the clinical picture of one patient: the condition and   *)
(*             medication records the enhanced processors build from the   *)
(*             patient's rows and the fields they derive from them.        *)
(*   NarrativeSpec the gender fields, title and summary the enhanced       *)
(*             processors generate for one patient.                        *)
(*   MedicationSpec the medication record the Synthea processor builds     *)
(*             from a medications row, and the care gaps that follow.      *)
(*   DocumentSpec the documents of the seven readers, field by field: the  *)
(*             readers wired into main and those of the enhanced           *)
(*             processors.                                                 *)
(***************************************************************************)
EXTENDS Integers, Sequences, FiniteSets, TLC

VARIABLES
    pc,              \* control point of main()
    dataset,         \* args.dataset
    batch_size,      \* config['batch_size']
    itemsUnreadable, \* D_LABITEMS.csv exists but pd.read_csv raises on it
    stage,           \* position in StageOrder of the loop being executed
    srcLen,          \* rows of the stage's primary table
    nread,           \* rows the stage's reader has consumed
    nyield,          \* documents the stage's reader has yielded
    batch,           \* main's local list `batch`
    handed,          \* calls of bulk_index made in this stage, in order
    drained,         \* stages whose loop and final flush are over
    writeFailed,     \* some bulk_index call of the run returned False
    unreachableSeen  \* the sink has been found totally unreachable

runVars == <<pc, dataset, batch_size, itemsUnreadable, stage, srcLen, nread,
             nyield, batch, handed, drained, writeFailed, unreachableSeen>>

VARIABLES
    dialect,         \* which enhanced processor: MIMICDataProcessor or SyntheaDataProcessor
    anonymize,       \* self.anonymize
    gen,             \* position of the patient generator
    rows,            \* rows of the patients table the generator iterates
    rowsDone,        \* rows the generator has processed
    stats,           \* self.stats
    error_count,     \* self.error_count
    last,            \* the row processed last, what became of it and its document
    remembered,      \* one earlier assembly: its processor, run, natural key and id
    runs,            \* generator runs started so far
    rowsLeft,        \* rows the tables of later runs may still hold
    files,           \* the source files as the run in progress found them
    consumer         \* the caller of the first pass on this processor: the
                     \* documents it has received and whether it has stopped
                     \* iterating; not followed once a later pass has begun

enhVars == <<dialect, anonymize, gen, rows, rowsDone, stats, error_count, last,
             remembered, runs, rowsLeft, files, consumer>>

VARIABLES
    description,     \* a condition description, as a sequence of characters
    severity,        \* what each dialect's severity classifier returned for it
    category         \* what each dialect's categorizer returned for it

deriveVars == <<description, severity, category>>

VARIABLES
    processor,       \* which enhanced processor assembles the patient
    crosswalk,       \* self.icd9_to_icd10_map or self.snomed_to_icd10
    conditions,      \* the condition records built from the patient's rows
    medications,     \* the medication records built from the patient's rows
    patientAge,      \* the patient's age in years
    admissionCount,  \* rows of the ADMISSIONS table that belong to the patient
    features         \* the derived fields of the patient's document

clinVars == <<processor, crosswalk, conditions, medications, patientAge,
              admissionCount, features>>

VARIABLES
    subject,         \* a patients row and the condition records built for it
    narrative        \* what became of the row: its gender fields and its summary

narrVars == <<subject, narrative>>

VARIABLES
    medication_row,        \* a medications row of a patient, next to the patient's conditions
    processed_medication   \* what _get_patient_medications made of the row

medVars == <<medication_row, processed_medication>>

VARIABLES
    source_row,      \* a row of a source table and the reader that meets it
    clock,           \* datetime.now() at the time the row is read
    document         \* the document the reader yields for the row

docVars == <<source_row, clock, document>>

vars == <<runVars, enhVars, deriveVars, clinVars, narrVars, medVars, docVars>>

\* what the run of main leaves alone
nonRunVars == <<enhVars, deriveVars, clinVars, narrVars, medVars, docVars>>

\* what the enhanced processors leave alone
nonEnhVars == <<runVars, deriveVars, clinVars, narrVars, medVars, docVars>>

\* what the classifiers leave alone
nonDeriveVars == <<runVars, enhVars, clinVars, narrVars, medVars, docVars>>

\* what the assembly of the clinical picture leaves alone
nonClinVars == <<runVars, enhVars, deriveVars, narrVars, medVars, docVars>>

\* what the generated texts leave alone
nonNarrVars == <<runVars, enhVars, deriveVars, clinVars, medVars, docVars>>

\* what the assembly of a medication record leaves alone
nonMedVars == <<runVars, enhVars, deriveVars, clinVars, narrVars, docVars>>

\* what the assembly of a document leaves alone
nonDocVars == <<runVars, enhVars, deriveVars, clinVars, narrVars, medVars>>

-----------------------------------------------------------------------------
(* Bounds of the model. *)

MaxRecords == 7
MaxBatchSize == 4
MaxRows == 3
MaxRuns == 2
MaxWords == 3
MaxChildRows == 3
MaxListed == 3

-----------------------------------------------------------------------------
(* The parts of the state a specification does not exercise stay as below. *)

NoRow == [outcome |-> "none"]

NoAssembly == [set |-> FALSE]

AllPresent == [patients |-> "present", children |-> "present"]

FirstPass == [first |-> TRUE, received |-> 0, stopped |-> FALSE]

LaterPass == [first |-> FALSE, received |-> 0, stopped |-> FALSE]

ZeroStats ==
    [patients_processed |-> 0, invalid_age |-> 0, processing_errors |-> 0,
     patient_processing_errors |-> 0]

RunIdle ==
    /\ pc = "idle"
    /\ dataset = "all"
    /\ batch_size = 1
    /\ itemsUnreadable = FALSE
    /\ stage = 0
    /\ srcLen = 0
    /\ nread = 0
    /\ nyield = 0
    /\ batch = <<>>
    /\ handed = <<>>
    /\ drained = <<>>
    /\ writeFailed = FALSE
    /\ unreachableSeen = FALSE

EnhIdle ==
    /\ dialect = "mimic"
    /\ anonymize = FALSE
    /\ gen = "idle"
    /\ rows = 0
    /\ rowsDone = 0
    /\ stats = ZeroStats
    /\ error_count = 0
    /\ last = NoRow
    /\ remembered = NoAssembly
    /\ runs = 0
    /\ rowsLeft = 0
    /\ files = AllPresent
    /\ consumer = FirstPass

Unclassified == [mimic |-> "none", synthea |-> "none"]

DeriveIdle ==
    /\ description = <<>>
    /\ severity = Unclassified
    /\ category = Unclassified

ClinIdle ==
    /\ processor = "mimic"
    /\ crosswalk = <<>>
    /\ conditions = <<>>
    /\ medications = <<>>
    /\ patientAge = 0
    /\ admissionCount = 0
    /\ features = <<>>

Undescribed == [outcome |-> "none"]

NarrIdle ==
    /\ subject = <<>>
    /\ narrative = Undescribed

Unprocessed == [outcome |-> "none"]

MedIdle ==
    /\ medication_row = <<>>
    /\ processed_medication = Unprocessed

NoDocument == <<>>

DocIdle ==
    /\ source_row = <<>>
    /\ clock = "2024-01-01T00:00:00"
    /\ document = NoDocument

-----------------------------------------------------------------------------
(* process_data.py: main() and ElasticsearchConnector *)

StageOrder == <<"mimic_patients", "mimic_notes", "mimic_labs", "synthea_patients">>

Datasets == {"mimic", "synthea", "all"}

\* the `if args.dataset in [...]` tests guarding the two blocks of main
StageSelected(d, s) ==
    IF StageOrder[s] = "synthea_patients"
    THEN d \in {"synthea", "all"}
    ELSE d \in {"mimic", "all"}

\* a faulty variant: every loop writes to the patients index
StageIndexPatientsOnly(s) == "patients"

\* the index name each loop passes to bulk_index
StageIndex(s) ==
    CASE StageOrder[s] = "mimic_patients"   -> "patients"
      [] StageOrder[s] = "mimic_notes"      -> "clinical-notes"
      [] StageOrder[s] = "mimic_labs"       -> "lab-results"
      [] StageOrder[s] = "synthea_patients" -> "patients"

\* the first selected stage at or after s, Len(StageOrder) + 1 when there is none
RECURSIVE NextSelected(_, _)
NextSelected(d, s) ==
    IF s > Len(StageOrder) THEN s
    ELSE IF StageSelected(d, s) THEN s
    ELSE NextSelected(d, s + 1)

\* what elasticsearch.helpers.bulk does with a batch: indexes all of it, raises
\* BulkIndexError because documents were rejected, or raises a connection error
BulkOutcomes == {"ok", "rejected", "unreachable"}

\* bulk_index: True after bulk returned, False from the except branch
BulkIndexReturns(outcome) == outcome = "ok"

\* a faulty variant: bulk_index catches BulkIndexError only, a connection error propagates
BulkIndexRaisesConnectionError(outcome) == outcome = "unreachable"

\* bulk_index: `except Exception` lets no outcome of bulk propagate to main
BulkIndexRaises(outcome) == FALSE

\* a faulty variant: the threshold test written with > instead of >=
BatchFullStrict(b, T) == Len(b) > T

\* `if len(batch) >= config['batch_size']`
BatchFull(b, T) == Len(b) >= T

\* a faulty variant: the batch is kept for a retry when bulk_index returned False
BatchKeptOnFailure(b, result) == IF result THEN <<>> ELSE b

\* `batch = []` after the flush inside the loop, whatever bulk_index returned
BatchAfterFlush(b, result) == <<>>

\* rows the readers of a stage skip without yielding (empty TEXT, missing VALUE)
StageSkipsRows(s) == StageOrder[s] \in {"mimic_notes", "mimic_labs"}

Doc(s, n) == [stage |-> s, n |-> n]

Call(s, docs, outcome) ==
    [index |-> StageIndex(s), docs |-> docs, result |-> BulkIndexReturns(outcome)]

Init ==
    /\ pc = "test_connection"
    /\ dataset \in Datasets
    /\ batch_size \in 1..MaxBatchSize
    /\ itemsUnreadable \in BOOLEAN
    /\ stage = 0
    /\ srcLen = 0
    /\ nread = 0
    /\ nyield = 0
    /\ batch = <<>>
    /\ handed = <<>>
    /\ drained = <<>>
    /\ writeFailed = FALSE
    /\ unreachableSeen = FALSE
    /\ EnhIdle
    /\ DeriveIdle
    /\ ClinIdle
    /\ NarrIdle
    /\ MedIdle
    /\ DocIdle

\* es_connector.test_connection() and the sys.exit(1) that follows a False
TestConnection ==
    /\ pc = "test_connection"
    /\ \E reachable \in BOOLEAN :
        IF reachable
        THEN /\ stage' = NextSelected(dataset, 1)
             /\ pc' = "stage_begin"
             /\ UNCHANGED unreachableSeen
        ELSE /\ pc' = "exit"
             /\ unreachableSeen' = TRUE
             /\ UNCHANGED stage
    /\ UNCHANGED <<dataset, batch_size, itemsUnreadable, srcLen, nread, nyield,
                   batch, handed, drained, writeFailed>>
    /\ UNCHANGED nonRunVars

\* `batch = []` and the first next() on the stage's generator, up to its row loop:
\* a missing primary file, or one pd.read_csv raises on inside the reader's try,
\* ends the generator at once (no rows); process_lab_events reads D_LABITEMS.csv
\* before its try, so an unreadable one raises out of the generator into main
BeginStage ==
    /\ pc = "stage_begin"
    /\ batch' = <<>>
    /\ handed' = <<>>
    /\ nread' = 0
    /\ nyield' = 0
    /\ IF StageOrder[stage] = "mimic_labs" /\ itemsUnreadable
       THEN \/ /\ srcLen' = 0           \* LABEVENTS.csv missing: return before the read
               /\ pc' = "reading"
            \/ /\ srcLen' = 0
               /\ pc' = "crashed"
       ELSE /\ srcLen' \in 0..MaxRecords
            /\ pc' = "reading"
    /\ UNCHANGED <<dataset, batch_size, itemsUnreadable, stage, drained,
                   writeFailed, unreachableSeen>>
    /\ UNCHANGED nonRunVars

\* the reader yields a document: `batch.append(...)` and the threshold test
ReaderYield ==
    /\ pc = "reading"
    /\ nread < srcLen
    /\ nread' = nread + 1
    /\ nyield' = nyield + 1
    /\ batch' = Append(batch, Doc(stage, nyield + 1))
    /\ pc' = IF BatchFull(batch', batch_size) THEN "flush" ELSE "reading"
    /\ UNCHANGED <<dataset, batch_size, itemsUnreadable, stage, srcLen, handed,
                   drained, writeFailed, unreachableSeen>>
    /\ UNCHANGED nonRunVars

\* the reader `continue`s over a row (notes with no TEXT, labs with no VALUE)
ReaderSkip ==
    /\ pc = "reading"
    /\ nread < srcLen
    /\ StageSkipsRows(stage)
    /\ nread' = nread + 1
    /\ UNCHANGED <<pc, dataset, batch_size, itemsUnreadable, stage, srcLen, nyield,
                   batch, handed, drained, writeFailed, unreachableSeen>>
    /\ UNCHANGED nonRunVars

\* a row raises inside the reader's single try around its whole loop: the
\* exception is logged and the generator ends with the rows left unread
ReaderRaise ==
    /\ pc = "reading"
    /\ nread < srcLen
    /\ nread' = nread + 1
    /\ pc' = "final_flush"
    /\ UNCHANGED <<dataset, batch_size, itemsUnreadable, stage, srcLen, nyield,
                   batch, handed, drained, writeFailed, unreachableSeen>>
    /\ UNCHANGED nonRunVars

\* the reader's loop runs out of rows
ReaderExhausted ==
    /\ pc = "reading"
    /\ nread = srcLen
    /\ pc' = "final_flush"
    /\ UNCHANGED <<dataset, batch_size, itemsUnreadable, stage, srcLen, nread,
                   nyield, batch, handed, drained, writeFailed, unreachableSeen>>
    /\ UNCHANGED nonRunVars

\* `es_connector.bulk_index(index, batch); batch = []` inside the loop
Flush ==
    /\ pc = "flush"
    /\ \E outcome \in BulkOutcomes :
        /\ handed' = Append(handed, Call(stage, batch, outcome))
        /\ writeFailed' = (writeFailed \/ ~BulkIndexReturns(outcome))
        /\ unreachableSeen' = (unreachableSeen \/ outcome = "unreachable")
        /\ IF BulkIndexRaises(outcome)
           THEN /\ pc' = "crashed"
                /\ UNCHANGED batch
           ELSE /\ pc' = "reading"
                /\ batch' = BatchAfterFlush(batch, BulkIndexReturns(outcome))
    /\ UNCHANGED <<dataset, batch_size, itemsUnreadable, stage, srcLen, nread,
                   nyield, drained>>
    /\ UNCHANGED nonRunVars

\* `if batch: es_connector.bulk_index(index, batch)` after the loop
FinalFlush ==
    /\ pc = "final_flush"
    /\ IF batch # <<>>
       THEN \E outcome \in BulkOutcomes :
            /\ handed' = Append(handed, Call(stage, batch, outcome))
            /\ writeFailed' = (writeFailed \/ ~BulkIndexReturns(outcome))
            /\ unreachableSeen' = (unreachableSeen \/ outcome = "unreachable")
            /\ pc' = IF BulkIndexRaises(outcome) THEN "crashed" ELSE "drained"
       ELSE /\ pc' = "drained"
            /\ UNCHANGED <<handed, writeFailed, unreachableSeen>>
    /\ UNCHANGED <<dataset, batch_size, itemsUnreadable, stage, srcLen, nread,
                   nyield, batch, drained>>
    /\ UNCHANGED nonRunVars

\* control falls through to the next selected loop, or to the closing log line
AdvanceStage ==
    /\ pc = "drained"
    /\ drained' = Append(drained, stage)
    /\ stage' = NextSelected(dataset, stage + 1)
    /\ pc' = IF stage' > Len(StageOrder) THEN "done" ELSE "stage_begin"
    /\ UNCHANGED <<dataset, batch_size, itemsUnreadable, srcLen, nread, nyield,
                   batch, handed, writeFailed, unreachableSeen>>
    /\ UNCHANGED nonRunVars

Next ==
    \/ TestConnection
    \/ BeginStage
    \/ ReaderYield
    \/ ReaderSkip
    \/ ReaderRaise
    \/ ReaderExhausted
    \/ Flush
    \/ FinalFlush
    \/ AdvanceStage

Spec == Init /\ [][Next]_vars

FairSpec == Spec /\ WF_vars(Next)

-----------------------------------------------------------------------------
(* mimic_processor.py, synthea_processor.py: the enhanced patient generators *)

Dialects == {"mimic", "synthea"}

\* natural keys of the sample rows: SUBJECT_ID values, patients.csv Id values
NaturalKeys(d) ==
    IF d = "mimic" THEN {10006, 10011}
    ELSE {"1d604da9-9a81-4ba9-80c2-de3375d59b40", "8b0484cd-3dbd-8b8d-1b72-a32f74a5a846"}

\* (reference_date - dob).days of the sample rows: ages -1, 0, 65, 120, 121
AgeDays == {-1, 0, 65 * 365, 120 * 365 + 364, 121 * 365}

\* values of datetime.now().isoformat()
Times == {"2024-01-01T00:00:00", "2024-06-30T12:00:00"}

\* a patients row as far as the generators look at it: its natural key, whether
\* its birth date is there and parses, the days from birth to the reference
\* date, and whether deriving or assembling raises on it (a child table row
\* with a bad date, a value of the wrong type, ...)
PatientRows(d) ==
    [key : NaturalKeys(d), dob : {"valid"}, days : AgeDays, raises : BOOLEAN]
    \cup [key : NaturalKeys(d),
          dob : IF d = "mimic" THEN {"missing", "unparseable"} ELSE {"unparseable"},
          days : {0}, raises : BOOLEAN]

\* hashlib.md5(s.encode()).hexdigest()[:8], tabulated on the sample keys
Md5Hex8(s) ==
    CASE s = "patient_10006_mimic" -> "ceea2631"
      [] s = "patient_10011_mimic" -> "912afa0f"

\* a faulty variant: the id numbers the documents in the order they are produced
GeneratePatientIdByCount(subject_id) ==
    "pat_" \o ToString(stats.patients_processed + 1)

\* MIMICDataProcessor._generate_patient_id
GeneratePatientId(subject_id) ==
    "pat_" \o Md5Hex8("patient_" \o ToString(subject_id) \o "_mimic")

\* MIMICDataProcessor._process_single_patient, line 93
MimicPatientId(subject_id, anon) ==
    IF anon THEN GeneratePatientId(subject_id)
    ELSE "patient_" \o ToString(subject_id)

\* SyntheaDataProcessor._process_synthea_patient, line 149: self.anonymize is not read
SyntheaPatientId(patient_id, anon) == "synthea_patient_" \o patient_id

\* MIMICDataProcessor._calculate_age: <<>> for None, <<age>> otherwise
CalculateAge(row) ==
    IF row.dob = "missing" THEN <<>>
    ELSE IF row.dob = "unparseable" THEN <<>>
    ELSE <<row.days \div 365>>

\* `age is None or not (0 <= age <= 120)`, negated
AgeInRange(age) == age # <<>> /\ 0 <= age[1] /\ age[1] <= 120

\* SyntheaDataProcessor._process_synthea_patient, lines 136-139
SyntheaAge(row) == row.days \div 365

\* what _process_single_patient does with a row: returns None at the age gate,
\* raises, or returns the document
MimicOutcome(row) ==
    IF ~AgeInRange(CalculateAge(row)) THEN "invalid_age"
    ELSE IF row.raises THEN "error"
    ELSE "doc"

\* what _process_synthea_patient does with a row: pd.to_datetime raises on an
\* unparseable BIRTHDATE, a later step raises, or the document is returned
SyntheaOutcome(row) ==
    IF row.dob = "unparseable" \/ row.raises THEN "error" ELSE "doc"

RowOutcome(d, row) == IF d = "mimic" THEN MimicOutcome(row) ELSE SyntheaOutcome(row)

\* the states of a source file: it is not there, it is there and loads, it is
\* there and pd.read_csv raises on it
FileStates == {"missing", "present", "unreadable"}

\* the files as a run can find them; the child tables (admissions and diagnoses,
\* or conditions, medications, encounters and observations) are taken together
\* and only looked at once the patients table has loaded
SourceFiles ==
    {[patients |-> p, children |-> c] :
        p \in FileStates, c \in FileStates} \ 
    {[patients |-> p, children |-> c] :
        p \in {"missing", "unreadable"}, c \in {"missing", "unreadable"}}

\* a faulty variant: the table is read without testing that its file exists
LoadCsvUnchecked(file) ==
    IF file = "present" THEN "frame" ELSE "raises"

\* SyntheaDataProcessor._load_csv_safe and the conditional expressions of
\* process_patients_enhanced: an empty DataFrame for a missing file
LoadCsvSafe(file) ==
    IF file = "missing" THEN "empty"
    ELSE IF file = "unreadable" THEN "raises"
    ELSE "frame"

\* the generator from its first next() to the row loop: return when the patients
\* file is missing, re-raise when a read raises, else iterate
OpenOutcome(f) ==
    IF f.patients = "missing" THEN "ended"
    ELSE IF f.patients = "unreadable" \/ LoadCsvSafe(f.children) = "raises" THEN "raised"
    ELSE "loop"

\* the rows a child table can hold for one patient
ChildRows(f) == IF f.children = "present" THEN {0, 1} ELSE {0}

\* _get_patient_diagnoses, _get_patient_conditions and the like: [] for an empty
\* frame, else one record per row of the patient
ChildRecords(f, n) == IF LoadCsvSafe(f.children) = "empty" THEN 0 ELSE n

\* the document returned for a row, as far as modelled; `conditions` is the
\* length of the list and `total` the count of the admissions or encounters
\* summary
PatientDocument(d, anon, row, now, f, n) ==
    IF d = "mimic"
    THEN [id |-> MimicPatientId(row.key, anon),
          age |-> CalculateAge(row)[1],
          conditions |-> ChildRecords(f, n),
          total |-> ChildRecords(f, n),
          source |-> "MIMIC-III",
          timestamp |-> now]
    ELSE [id |-> SyntheaPatientId(row.key, anon),
          age |-> SyntheaAge(row),
          conditions |-> ChildRecords(f, n),
          total |-> ChildRecords(f, n),
          source |-> "Synthea",
          timestamp |-> now]

\* an assembly as remembered: the processor, the run, the natural key, the id
Assembly(d, anon, run, row, doc) ==
    [set |-> TRUE, dialect |-> d, anonymize |-> anon, run |-> run,
     key |-> row.key, id |-> doc.id]

\* a faulty variant: a row that raises is logged and not counted
StatsAfterErrorUncounted(d, st) == st

\* the except branch of the row loop: stats['processing_errors'] += 1, or
\* stats['patient_processing_errors'] += 1 next to error_count += 1
StatsAfterError(d, st) ==
    IF d = "mimic"
    THEN [st EXCEPT !.processing_errors = @ + 1]
    ELSE [st EXCEPT !.patient_processing_errors = @ + 1]

EnhInit ==
    /\ dialect \in Dialects
    /\ anonymize \in BOOLEAN
    /\ gen = "created"
    /\ rows = 0
    /\ rowsDone = 0
    /\ stats = ZeroStats
    /\ error_count = 0
    /\ last = NoRow
    /\ remembered = NoAssembly
    /\ runs = 1
    /\ rowsLeft = MaxRows
    /\ files = AllPresent
    /\ consumer = FirstPass
    /\ RunIdle
    /\ DeriveIdle
    /\ ClinIdle
    /\ NarrIdle
    /\ MedIdle
    /\ DocIdle

\* the first next() up to the row loop: the patients table is missing (return),
\* reading a table raises (logged and re-raised), or the tables are loaded; the
\* tables of all the runs of a behaviour hold MaxRows rows in all
EnhOpen ==
    /\ gen = "created"
    /\ files' \in SourceFiles
    /\ gen' = OpenOutcome(files')
    /\ rows' \in (IF gen' = "loop" THEN 0..rowsLeft ELSE {0})
    /\ rowsLeft' = rowsLeft - rows'
    /\ rowsDone' = 0
    /\ last' = NoRow
    /\ UNCHANGED <<dialect, anonymize, stats, error_count, remembered, runs,
                   consumer>>
    /\ UNCHANGED nonEnhVars

\* one turn of the row loop: the row is skipped at the age gate, raises into
\* the loop's except branch, or its document is yielded
EnhRow ==
    /\ gen = "loop"
    /\ rowsDone < rows
    /\ rowsDone' = rowsDone + 1
    /\ \E row \in PatientRows(dialect) :
        LET outcome == RowOutcome(dialect, row)
        IN  CASE outcome = "invalid_age" ->
                    /\ stats' = [stats EXCEPT !.invalid_age = @ + 1]
                    /\ last' = [outcome |-> outcome, row |-> row]
                    /\ UNCHANGED <<gen, error_count, remembered, consumer>>
              [] outcome = "error" ->
                    /\ stats' = StatsAfterError(dialect, stats)
                    /\ error_count' = IF dialect = "synthea" THEN error_count + 1
                                      ELSE error_count
                    /\ last' = [outcome |-> outcome, row |-> row]
                    /\ UNCHANGED <<gen, remembered, consumer>>
              [] outcome = "doc" ->
                    \E now \in Times, n \in ChildRows(files),
                       keep \in (IF remembered.set THEN {TRUE} ELSE BOOLEAN) :
                        LET doc == PatientDocument(dialect, anonymize, row, now,
                                                   files, n)
                        IN  /\ gen' = "suspended"
                            /\ consumer' = IF consumer.first
                                            THEN [consumer EXCEPT !.received = @ + 1]
                                            ELSE consumer
                            /\ last' = [outcome |-> outcome, row |-> row, doc |-> doc]
                            /\ remembered' =
                                   IF keep THEN remembered
                                   ELSE Assembly(dialect, anonymize, runs, row, doc)
                            /\ UNCHANGED <<stats, error_count>>
    /\ UNCHANGED <<dialect, anonymize, rows, runs, rowsLeft, files>>
    /\ UNCHANGED nonEnhVars

\* the consumer asks for the next document: the generator resumes after its
\* yield with stats['patients_processed'] += 1
EnhResume ==
    /\ gen = "suspended"
    /\ stats' = [stats EXCEPT !.patients_processed = @ + 1]
    /\ gen' = "loop"
    /\ UNCHANGED <<dialect, anonymize, rows, rowsDone, error_count, last,
                   remembered, runs, rowsLeft, files, consumer>>
    /\ UNCHANGED nonEnhVars

\* the consumer stops iterating: the suspended generator is closed
EnhClose ==
    /\ gen = "suspended"
    /\ gen' = "ended"
    /\ consumer' = IF consumer.first THEN [consumer EXCEPT !.stopped = TRUE]
                   ELSE consumer
    /\ UNCHANGED <<dialect, anonymize, rows, rowsDone, stats, error_count, last,
                   remembered, runs, rowsLeft, files>>
    /\ UNCHANGED nonEnhVars

\* the row loop runs out of rows
EnhExhausted ==
    /\ gen = "loop"
    /\ rowsDone = rows
    /\ gen' = "ended"
    /\ UNCHANGED <<dialect, anonymize, rows, rowsDone, stats, error_count, last,
                   remembered, runs, rowsLeft, files, consumer>>
    /\ UNCHANGED nonEnhVars

\* the patient pass is called again on the same processor, whose __init__ does
\* not run again
EnhRunAgain ==
    /\ gen \in {"ended", "raised"}
    /\ runs < MaxRuns
    /\ runs' = runs + 1
    /\ gen' = "created"
    /\ consumer' = LaterPass
    /\ UNCHANGED <<dialect, anonymize, rows, rowsDone, stats, error_count, last,
                   remembered, rowsLeft, files>>
    /\ UNCHANGED nonEnhVars

\* another processor is constructed (__init__) and its patient pass called
EnhNewProcessor ==
    /\ gen \in {"ended", "raised"}
    /\ runs < MaxRuns
    /\ runs' = runs + 1
    /\ dialect' \in Dialects
    /\ anonymize' \in BOOLEAN
    /\ stats' = ZeroStats
    /\ error_count' = 0
    /\ gen' = "created"
    /\ last' = NoRow
    /\ consumer' = FirstPass
    /\ UNCHANGED <<rows, rowsDone, remembered, rowsLeft, files>>
    /\ UNCHANGED nonEnhVars

EnhNext ==
    \/ EnhOpen
    \/ EnhRow
    \/ EnhResume
    \/ EnhClose
    \/ EnhExhausted
    \/ EnhRunAgain
    \/ EnhNewProcessor

EnhSpec == EnhInit /\ [][EnhNext]_vars

-----------------------------------------------------------------------------
(* mimic_processor.py, synthea_processor.py: the keyword classifiers *)

\* words the sample descriptions are made of
Words ==
    {<<"S", "e", "v", "e", "r", "e">>,
     <<"A", "c", "u", "t", "e">>,
     <<"c", "r", "i", "s", "i", "s">>,
     <<"E", "m", "e", "r", "g", "e", "n", "c", "y">>,
     <<"E", "n", "d">>,
     <<"s", "t", "a", "g", "e">>,
     <<"C", "h", "r", "o", "n", "i", "c">>,
     <<"m", "o", "d", "e", "r", "a", "t", "e">>,
     <<"H", "y", "p", "e", "r", "t", "e", "n", "s", "i", "v", "e">>,
     <<"r", "e", "n", "a", "l">>,
     <<"a", "s", "t", "h", "m", "a">>}

\* the words of a description joined by single spaces
RECURSIVE JoinWords(_)
JoinWords(ws) ==
    IF ws = <<>> THEN <<>>
    ELSE IF Len(ws) = 1 THEN ws[1]
    ELSE ws[1] \o <<" ">> \o JoinWords(Tail(ws))

\* the sample descriptions: up to MaxWords words
Descriptions ==
    {JoinWords(ws) : ws \in UNION {[1..n -> Words] : n \in 0..MaxWords}}

\* str.lower() on one character
LowerChar(c) ==
    CASE c = "A" -> "a"
      [] c = "B" -> "b"
      [] c = "C" -> "c"
      [] c = "D" -> "d"
      [] c = "E" -> "e"
      [] c = "F" -> "f"
      [] c = "G" -> "g"
      [] c = "H" -> "h"
      [] c = "I" -> "i"
      [] c = "J" -> "j"
      [] c = "K" -> "k"
      [] c = "L" -> "l"
      [] c = "M" -> "m"
      [] c = "N" -> "n"
      [] c = "O" -> "o"
      [] c = "P" -> "p"
      [] c = "Q" -> "q"
      [] c = "R" -> "r"
      [] c = "S" -> "s"
      [] c = "T" -> "t"
      [] c = "U" -> "u"
      [] c = "V" -> "v"
      [] c = "W" -> "w"
      [] c = "X" -> "x"
      [] c = "Y" -> "y"
      [] c = "Z" -> "z"
      [] OTHER -> c

\* str.lower()
Lower(str) == [i \in 1..Len(str) |-> LowerChar(str[i])]

\* `term in text` on strings
Contains(text, term) ==
    \E i \in 0..(Len(text) - Len(term)) : SubSeq(text, i + 1, i + Len(term)) = term

\* `any(term in text for term in terms)`
AnyTermIn(terms, text) == \E t \in terms : Contains(text, t)

TermSevere == <<"s", "e", "v", "e", "r", "e">>
TermAcute == <<"a", "c", "u", "t", "e">>
TermCrisis == <<"c", "r", "i", "s", "i", "s">>
TermEmergency == <<"e", "m", "e", "r", "g", "e", "n", "c", "y">>
TermEndStage == <<"e", "n", "d", " ", "s", "t", "a", "g", "e">>
TermChronic == <<"c", "h", "r", "o", "n", "i", "c">>
TermModerate == <<"m", "o", "d", "e", "r", "a", "t", "e">>

\* the two keyword lists of MIMICDataProcessor._determine_severity
MimicSevereTerms == {TermEndStage, TermSevere, TermAcute}
MimicModerateTerms == {TermChronic, TermModerate}

\* the two keyword lists of SyntheaDataProcessor._determine_condition_severity
SyntheaSevereTerms == {TermSevere, TermAcute, TermCrisis, TermEmergency}
SyntheaModerateTerms == {TermModerate, TermChronic}

\* a faulty variant: the moderate keywords are tested before the severe ones
DetermineSeverityModerateFirst(desc) ==
    LET desc_lower == Lower(desc)
    IN  IF AnyTermIn(MimicModerateTerms, desc_lower) THEN "moderate"
        ELSE IF AnyTermIn(MimicSevereTerms, desc_lower) THEN "severe"
        ELSE "mild"

\* MIMICDataProcessor._determine_severity
DetermineSeverity(desc) ==
    LET desc_lower == Lower(desc)
    IN  IF AnyTermIn(MimicSevereTerms, desc_lower) THEN "severe"
        ELSE IF AnyTermIn(MimicModerateTerms, desc_lower) THEN "moderate"
        ELSE "mild"

\* SyntheaDataProcessor._determine_condition_severity
DetermineConditionSeverity(desc) ==
    LET desc_lower == Lower(desc)
    IN  IF AnyTermIn(SyntheaSevereTerms, desc_lower) THEN "severe"
        ELSE IF AnyTermIn(SyntheaModerateTerms, desc_lower) THEN "moderate"
        ELSE "mild"

DeriveInit ==
    /\ description \in Descriptions
    /\ severity = Unclassified
    /\ category = Unclassified
    /\ RunIdle
    /\ EnhIdle
    /\ ClinIdle
    /\ NarrIdle
    /\ MedIdle
    /\ DocIdle

\* the MIMIC processor classifies the description
ClassifyMimic ==
    /\ severity.mimic = "none"
    /\ severity' = [severity EXCEPT !.mimic = DetermineSeverity(description)]
    /\ UNCHANGED <<description, category>>
    /\ UNCHANGED nonDeriveVars

\* the Synthea processor classifies the description
ClassifySynthea ==
    /\ severity.synthea = "none"
    /\ severity' = [severity EXCEPT !.synthea = DetermineConditionSeverity(description)]
    /\ UNCHANGED <<description, category>>
    /\ UNCHANGED nonDeriveVars

DeriveNext ==
    \/ ClassifyMimic
    \/ ClassifySynthea

DeriveSpec == DeriveInit /\ [][DeriveNext]_vars

-----------------------------------------------------------------------------
(* mimic_processor.py, synthea_processor.py: the keyword categorizers *)

\* words the sample descriptions of the categorizers are made of
CategoryWords ==
    {<<"H", "y", "p", "e", "r", "t", "e", "n", "s", "i", "o", "n">>,
     <<"D", "i", "a", "b", "e", "t", "e", "s">>,
     <<"P", "n", "e", "u", "m", "o", "n", "i", "a">>,
     <<"R", "e", "n", "a", "l">>,
     <<"C", "O", "P", "D">>,
     <<"H", "e", "a", "r", "t">>,
     <<"S", "e", "p", "s", "i", "s">>,
     <<"A", "n", "x", "i", "e", "t", "y">>,
     <<"f", "r", "a", "c", "t", "u", "r", "e">>,
     <<"d", "i", "s", "o", "r", "d", "e", "r">>}

\* the sample descriptions: up to MaxWords words
CategoryDescriptions ==
    {JoinWords(ws) : ws \in UNION {[1..n -> CategoryWords] : n \in 0..MaxWords}}

\* the dict `categories` of MIMICDataProcessor._categorize_condition, in
\* insertion order
MimicCategories ==
    <<[category |-> "cardiovascular",
       keywords |->
        {<<"h", "e", "a", "r", "t">>,
         <<"c", "a", "r", "d", "i", "a", "c">>,
         <<"h", "y", "p", "e", "r", "t", "e", "n", "s", "i", "o", "n">>}],
      [category |-> "endocrine",
       keywords |->
        {<<"d", "i", "a", "b", "e", "t", "e", "s">>,
         <<"t", "h", "y", "r", "o", "i", "d">>}],
      [category |-> "respiratory",
       keywords |->
        {<<"l", "u", "n", "g">>,
         <<"p", "u", "l", "m", "o", "n", "a", "r", "y">>,
         <<"c", "o", "p", "d">>}],
      [category |-> "renal",
       keywords |->
        {<<"k", "i", "d", "n", "e", "y">>,
         <<"r", "e", "n", "a", "l">>}]>>

\* the dict `categories` of SyntheaDataProcessor._categorize_synthea_condition,
\* in insertion order
SyntheaCategories ==
    <<[category |-> "cardiovascular",
       keywords |->
        {<<"h", "y", "p", "e", "r", "t", "e", "n", "s", "i", "o", "n">>,
         <<"h", "e", "a", "r", "t">>,
         <<"c", "a", "r", "d", "i", "a", "c">>,
         <<"s", "t", "r", "o", "k", "e">>,
         <<"c", "o", "r", "o", "n", "a", "r", "y">>}],
      [category |-> "endocrine",
       keywords |->
        {<<"d", "i", "a", "b", "e", "t", "e", "s">>,
         <<"t", "h", "y", "r", "o", "i", "d">>,
         <<"o", "b", "e", "s", "i", "t", "y">>,
         <<"m", "e", "t", "a", "b", "o", "l", "i", "c">>}],
      [category |-> "respiratory",
       keywords |->
        {<<"a", "s", "t", "h", "m", "a">>,
         <<"c", "o", "p", "d">>,
         <<"p", "n", "e", "u", "m", "o", "n", "i", "a">>,
         <<"b", "r", "o", "n", "c", "h", "i", "t", "i", "s">>}],
      [category |-> "mental_health",
       keywords |->
        {<<"d", "e", "p", "r", "e", "s", "s", "i", "o", "n">>,
         <<"a", "n", "x", "i", "e", "t", "y">>,
         <<"b", "i", "p", "o", "l", "a", "r">>,
         <<"s", "c", "h", "i", "z", "o", "p", "h", "r", "e", "n", "i", "a">>}],
      [category |-> "musculoskeletal",
       keywords |->
        {<<"a", "r", "t", "h", "r", "i", "t", "i", "s">>,
         <<"o", "s", "t", "e", "o", "p", "o", "r", "o", "s", "i", "s">>,
         <<"f", "r", "a", "c", "t", "u", "r", "e">>}],
      [category |-> "infectious",
       keywords |->
        {<<"i", "n", "f", "e", "c", "t", "i", "o", "n">>,
         <<"s", "e", "p", "s", "i", "s">>,
         <<"p", "n", "e", "u", "m", "o", "n", "i", "a">>,
         <<"i", "n", "f", "l", "u", "e", "n", "z", "a">>}]>>

\* the loop over categories.items(): the first category one of whose keywords
\* occurs in the lowered description is returned, 'general' after the loop
RECURSIVE FirstCategory(_, _)
FirstCategory(categories, desc_lower) ==
    IF categories = <<>> THEN "general"
    ELSE IF AnyTermIn(Head(categories).keywords, desc_lower)
         THEN Head(categories).category
         ELSE FirstCategory(Tail(categories), desc_lower)

\* a loop that does not return at the first hit: the last category one of whose
\* keywords occurs wins
RECURSIVE LastCategory(_, _)
LastCategory(categories, desc_lower) ==
    IF categories = <<>> THEN "general"
    ELSE LET n == Len(categories)
         IN  IF AnyTermIn(categories[n].keywords, desc_lower)
             THEN categories[n].category
             ELSE LastCategory(SubSeq(categories, 1, n - 1), desc_lower)

\* a faulty variant: the loop keeps going after a hit
CategorizeConditionLastHit(desc) ==
    LastCategory(MimicCategories, Lower(desc))

\* MIMICDataProcessor._categorize_condition
CategorizeCondition(desc) ==
    FirstCategory(MimicCategories, Lower(desc))

\* SyntheaDataProcessor._categorize_synthea_condition
CategorizeSyntheaCondition(desc) ==
    FirstCategory(SyntheaCategories, Lower(desc))

CategoryInit ==
    /\ description \in CategoryDescriptions
    /\ severity = Unclassified
    /\ category = Unclassified
    /\ RunIdle
    /\ EnhIdle
    /\ ClinIdle
    /\ NarrIdle
    /\ MedIdle
    /\ DocIdle

\* the MIMIC processor categorizes the description
CategorizeMimic ==
    /\ category.mimic = "none"
    /\ category' = [category EXCEPT !.mimic = CategorizeCondition(description)]
    /\ UNCHANGED <<description, severity>>
    /\ UNCHANGED nonDeriveVars

\* the Synthea processor categorizes the description
CategorizeSynthea ==
    /\ category.synthea = "none"
    /\ category' = [category EXCEPT !.synthea = CategorizeSyntheaCondition(description)]
    /\ UNCHANGED <<description, severity>>
    /\ UNCHANGED nonDeriveVars

CategoryNext ==
    \/ CategorizeMimic
    \/ CategorizeSynthea

CategorySpec == CategoryInit /\ [][CategoryNext]_vars

-----------------------------------------------------------------------------
(* mimic_processor.py, synthea_processor.py: the clinical picture of a patient *)

\* MIMICDataProcessor.__init__: self.icd9_to_icd10_map
Icd9ToIcd10Map ==
    ("250.00" :> "E11.9") @@
    ("401.9" :> "I10") @@
    ("272.4" :> "E78.5") @@
    ("414.01" :> "I25.10") @@
    ("496" :> "J44.1") @@
    ("585.6" :> "N18.6")

\* SyntheaDataProcessor.__init__: self.snomed_to_icd10
SnomedToIcd10 ==
    ("44054006" :> "E11.9") @@
    ("38341003" :> "I10") @@
    ("55822004" :> "E78.5") @@
    ("233604007" :> "J18.9") @@
    ("195967001" :> "J44.1") @@
    ("49436004" :> "F41.9") @@
    ("35489007" :> "F33.9")

\* the crosswalk a processor is constructed with
StaticCrosswalk(d) == IF d = "mimic" THEN Icd9ToIcd10Map ELSE SnomedToIcd10

\* a faulty variant: dict.get without its second argument, read as ''
DictGetOrEmpty(d, key, default) ==
    IF key \in DOMAIN d THEN d[key] ELSE ""

\* dict.get(key, default)
DictGet(d, key, default) ==
    IF key \in DOMAIN d THEN d[key] ELSE default

\* values of the ICD9_CODE column of the sample diagnosis rows
DiagnosisCodes == {"250.00", "401.9", " 401.9 ", "585.6", "428.0", "  "}

\* str.strip() on the sample codes
Strip(raw) ==
    CASE raw = " 401.9 " -> "401.9"
      [] raw = "  " -> ""
      [] OTHER -> raw

\* the characters of a code, as an f-string interpolates it
CodeChars(code) ==
    CASE code = "428.0" -> <<"4", "2", "8", ".", "0">>
      [] code = "401.9" -> <<"4", "0", "1", ".", "9">>
      [] code = "250.00" -> <<"2", "5", "0", ".", "0", "0">>
      [] code = "585.6" -> <<"5", "8", "5", ".", "6">>

\* the dict `descriptions` of MIMICDataProcessor._get_condition_description
ConditionDescriptions ==
    ("250.00" :> 
        <<"T", "y", "p", "e", " ", "2", " ", "d", "i", "a", "b", "e", "t", "e", "s", " ", "m", "e", "l", "l", "i", "t", "u", "s", " ", "w", "i", "t", "h", "o", "u", "t", " ", "c", "o", "m", "p", "l", "i", "c", "a", "t", "i", "o", "n", "s">>) @@
    ("401.9" :> 
        <<"E", "s", "s", "e", "n", "t", "i", "a", "l", " ", "h", "y", "p", "e", "r", "t", "e", "n", "s", "i", "o", "n">>) @@
    ("272.4" :> 
        <<"H", "y", "p", "e", "r", "l", "i", "p", "i", "d", "e", "m", "i", "a", ",", " ", "u", "n", "s", "p", "e", "c", "i", "f", "i", "e", "d">>) @@
    ("414.01" :> 
        <<"C", "o", "r", "o", "n", "a", "r", "y", " ", "a", "t", "h", "e", "r", "o", "s", "c", "l", "e", "r", "o", "s", "i", "s">>) @@
    ("496" :> 
        <<"C", "h", "r", "o", "n", "i", "c", " ", "o", "b", "s", "t", "r", "u", "c", "t", "i", "v", "e", " ", "p", "u", "l", "m", "o", "n", "a", "r", "y", " ", "d", "i", "s", "e", "a", "s", "e">>) @@
    ("585.6" :> 
        <<"E", "n", "d", " ", "s", "t", "a", "g", "e", " ", "r", "e", "n", "a", "l", " ", "d", "i", "s", "e", "a", "s", "e">>)

\* MIMICDataProcessor._get_condition_description
GetConditionDescription(icd9_code) ==
    IF icd9_code \in DOMAIN ConditionDescriptions
    THEN ConditionDescriptions[icd9_code]
    ELSE <<"M", "e", "d", "i", "c", "a", "l", " ", "c", "o", "n", "d", "i", "t", "i", "o", "n", " ", "(", "I", "C", "D", ":", " ">>
             \o CodeChars(icd9_code) \o <<")">>

\* MIMICDataProcessor._get_patient_diagnoses: one turn of the loop over the
\* patient's diagnosis rows, `conds` being the list built so far
AppendDiagnosis(conds, map, raw) ==
    LET icd9_code == Strip(raw)
    IN  IF icd9_code = "" THEN conds
        ELSE LET desc == GetConditionDescription(icd9_code)
             IN  Append(conds,
                        [id |-> "condition_" \o ToString(Len(conds) + 1),
                         icd9_code |-> icd9_code,
                         icd10_code |-> DictGet(map, icd9_code, icd9_code),
                         description |-> desc,
                         status |-> "active",
                         severity |-> DetermineSeverity(desc),
                         category |-> CategorizeCondition(desc)])

\* sample rows of conditions.csv
ConditionRows ==
    {[CODE |-> "44054006",
      DESCRIPTION |-> <<"D", "i", "a", "b", "e", "t", "e", "s">>,
      STOP |-> "NaN"],
     [CODE |-> "38341003",
      DESCRIPTION |-> <<"H", "y", "p", "e", "r", "t", "e", "n", "s", "i", "o", "n">>,
      STOP |-> "NaN"],
     [CODE |-> "88805009",
      DESCRIPTION |-> <<"C", "h", "r", "o", "n", "i", "c", " ", "c", "o", "n", "g", "e", "s", "t", "i", "v", "e", " ", "H", "e", "a", "r", "t", " ", "f", "a", "i", "l", "u", "r", "e", " ", "a", "f", "t", "e", "r", " ", "S", "t", "r", "o", "k", "e">>,
      STOP |-> "NaN"],
     [CODE |-> "195662009",
      DESCRIPTION |-> <<"A", "c", "u", "t", "e", " ", "v", "i", "r", "a", "l", " ", "p", "h", "a", "r", "y", "n", "g", "i", "t", "i", "s", " ", "(", "d", "i", "s", "o", "r", "d", "e", "r", ")">>,
      STOP |-> "2019-03-01"]}

\* SyntheaDataProcessor._get_patient_conditions: one turn of the loop over the
\* patient's condition rows, `conds` being the list built so far
AppendCondition(conds, map, condition) ==
    LET snomed_code == condition.CODE
    IN  Append(conds,
               [id |-> "condition_" \o ToString(Len(conds) + 1),
                snomed_code |-> snomed_code,
                icd10_code |-> DictGet(map, snomed_code, snomed_code),
                code_system |-> "SNOMED-CT",
                description |-> condition.DESCRIPTION,
                status |-> IF condition.STOP # "NaN" THEN "resolved" ELSE "active",
                severity |-> DetermineConditionSeverity(condition.DESCRIPTION),
                category |-> CategorizeSyntheaCondition(condition.DESCRIPTION)])

\* therapeutic classes of the sample medication records
MedicationClasses ==
    {<<"A", "n", "t", "i", "d", "i", "a", "b", "e", "t", "i", "c">>,
     <<"A", "C", "E", " ", "I", "n", "h", "i", "b", "i", "t", "o", "r">>,
     <<"C", "a", "l", "c", "i", "u", "m", " ", "C", "h", "a", "n", "n", "e", "l", " ", "B", "l", "o", "c", "k", "e", "r">>,
     <<"B", "e", "t", "a", " ", "B", "l", "o", "c", "k", "e", "r">>,
     <<"S", "t", "a", "t", "i", "n">>}

\* the list `high_risk_conditions` of SyntheaDataProcessor._assess_risk_profile
HighRiskConditions ==
    {<<"d", "i", "a", "b", "e", "t", "e", "s">>,
     <<"h", "y", "p", "e", "r", "t", "e", "n", "s", "i", "o", "n">>,
     <<"h", "e", "a", "r", "t">>,
     <<"s", "t", "r", "o", "k", "e">>,
     <<"c", "a", "n", "c", "e", "r">>}

AdvancedAge == <<"a", "d", "v", "a", "n", "c", "e", "d", "_", "a", "g", "e">>
MiddleAge == <<"m", "i", "d", "d", "l", "e", "_", "a", "g", "e">>

\* a faulty variant: the level is high at a score of 4 only
RiskLevelHighAtFour(risk_score) ==
    IF risk_score = 4 THEN "high"
    ELSE IF risk_score >= 2 THEN "medium"
    ELSE "low"

\* SyntheaDataProcessor._assess_risk_profile: the overall risk level
RiskLevel(risk_score) ==
    IF risk_score >= 4 THEN "high"
    ELSE IF risk_score >= 2 THEN "medium"
    ELSE "low"

\* `any(risk_cond in desc_lower for risk_cond in high_risk_conditions)`
IsHighRisk(condition) == AnyTermIn(HighRiskConditions, Lower(condition.description))

\* a faulty variant: the age of 65 counts as advanced
AssessRiskProfileFrom65(conds, years) ==
    LET by_age == IF years >= 65 THEN 2 ELSE IF years > 45 THEN 1 ELSE 0
        age_factors == IF years >= 65 THEN <<AdvancedAge>>
                       ELSE IF years > 45 THEN <<MiddleAge>>
                       ELSE <<>>
        counted == SelectSeq(conds, IsHighRisk)
        risk_score == by_age + Len(counted)
    IN  [overall_risk_score |-> risk_score,
         risk_level |-> RiskLevel(risk_score),
         risk_factors |->
             age_factors \o [i \in 1..Len(counted) |-> counted[i].description]]

\* SyntheaDataProcessor._assess_risk_profile
AssessRiskProfile(conds, years) ==
    LET by_age == IF years > 65 THEN 2 ELSE IF years > 45 THEN 1 ELSE 0
        age_factors == IF years > 65 THEN <<AdvancedAge>>
                       ELSE IF years > 45 THEN <<MiddleAge>>
                       ELSE <<>>
        counted == SelectSeq(conds, IsHighRisk)
        risk_score == by_age + Len(counted)
    IN  [overall_risk_score |-> risk_score,
         risk_level |-> RiskLevel(risk_score),
         risk_factors |->
             age_factors \o [i \in 1..Len(counted) |-> counted[i].description]]

\* the list of classes `has_bp_med` tests membership in
AntihypertensiveClasses ==
    {<<"A", "C", "E", " ", "I", "n", "h", "i", "b", "i", "t", "o", "r">>,
     <<"C", "a", "l", "c", "i", "u", "m", " ", "C", "h", "a", "n", "n", "e", "l", " ", "B", "l", "o", "c", "k", "e", "r">>,
     <<"B", "e", "t", "a", " ", "B", "l", "o", "c", "k", "e", "r">>}

\* a faulty variant: any medication at all counts as a diabetes medication
IdentifyCareGapsAnyMedication(conds, meds) ==
    LET has_diabetes ==
            \E i \in 1..Len(conds) :
                Contains(Lower(conds[i].description), <<"d", "i", "a", "b", "e", "t", "e", "s">>)
        has_diabetes_med == meds # <<>>
        has_hypertension ==
            \E i \in 1..Len(conds) :
                Contains(Lower(conds[i].description), <<"h", "y", "p", "e", "r", "t", "e", "n", "s", "i", "o", "n">>)
        has_bp_med ==
            \E i \in 1..Len(meds) : meds[i].medication_class \in AntihypertensiveClasses
    IN  (IF has_diabetes /\ ~has_diabetes_med
         THEN <<"diabetes_without_medication">> ELSE <<>>)
        \o (IF has_hypertension /\ ~has_bp_med
            THEN <<"hypertension_without_medication">> ELSE <<>>)

\* SyntheaDataProcessor._identify_care_gaps
IdentifyCareGaps(conds, meds) ==
    LET has_diabetes ==
            \E i \in 1..Len(conds) :
                Contains(Lower(conds[i].description), <<"d", "i", "a", "b", "e", "t", "e", "s">>)
        has_diabetes_med ==
            \E i \in 1..Len(meds) :
                Contains(Lower(meds[i].medication_class), <<"a", "n", "t", "i", "d", "i", "a", "b", "e", "t", "i", "c">>)
        has_hypertension ==
            \E i \in 1..Len(conds) :
                Contains(Lower(conds[i].description), <<"h", "y", "p", "e", "r", "t", "e", "n", "s", "i", "o", "n">>)
        has_bp_med ==
            \E i \in 1..Len(meds) : meds[i].medication_class \in AntihypertensiveClasses
    IN  (IF has_diabetes /\ ~has_diabetes_med
         THEN <<"diabetes_without_medication">> ELSE <<>>)
        \o (IF has_hypertension /\ ~has_bp_med
            THEN <<"hypertension_without_medication">> ELSE <<>>)

IsSevere(condition) == condition.severity = "severe"

\* a faulty variant: the score is returned without min(score, 20.0)
CalculateComplexityUncapped(conds, n_admissions) ==
    Len(conds) * 5
    + Len(SelectSeq(conds, IsSevere)) * 20
    + (IF n_admissions # 0 THEN n_admissions * 3 ELSE 0)

\* MIMICDataProcessor._calculate_complexity, in tenths: 0.5 is 5, 2.0 is 20,
\* 0.3 is 3 and the cap 20.0 is 200
CalculateComplexity(conds, n_admissions) ==
    LET score == Len(conds) * 5
                 + Len(SelectSeq(conds, IsSevere)) * 20
                 + (IF n_admissions # 0 THEN n_admissions * 3 ELSE 0)
    IN  IF score < 200 THEN score ELSE 200

\* MIMICDataProcessor._identify_risk_factors
IdentifyRiskFactors(conds) ==
    LET Mentions(term) ==
            \E i \in 1..Len(conds) : Contains(Lower(conds[i].description), term)
    IN  (IF Mentions(<<"d", "i", "a", "b", "e", "t", "e", "s">>)
         THEN <<"diabetes_mellitus">> ELSE <<>>)
        \o (IF Mentions(<<"h", "y", "p", "e", "r", "t", "e", "n", "s", "i", "o", "n">>)
            THEN <<"hypertension">> ELSE <<>>)
        \o (IF Mentions(<<"r", "e", "n", "a", "l">>)
            THEN <<"chronic_kidney_disease">> ELSE <<>>)

\* the fields an assembler derives from the lists it has built
DerivedFields(d, conds, meds, years, n_admissions) ==
    IF d = "mimic"
    THEN [risk_factors |-> IdentifyRiskFactors(conds),
          complexity_score |-> CalculateComplexity(conds, n_admissions)]
    ELSE [risk_profile |-> AssessRiskProfile(conds, years),
          care_gaps |-> IdentifyCareGaps(conds, meds)]

\* sample ages, on both sides of the two thresholds
Ages == {30, 45, 46, 65, 66, 70}

\* sample numbers of admissions of one patient
AdmissionCounts == {0, 1, 2, 60, 66}

\* a patient without child rows, as either processor assembles it; the fields
\* the MIMIC processor derives do not read the age, those of the Synthea
\* processor do not read the admissions
ClinicalInit ==
    /\ processor \in Dialects
    /\ crosswalk = StaticCrosswalk(processor)
    /\ conditions = <<>>
    /\ medications = <<>>
    /\ patientAge \in (IF processor = "mimic" THEN {70} ELSE Ages)
    /\ admissionCount \in (IF processor = "mimic" THEN AdmissionCounts ELSE {0})
    /\ features = DerivedFields(processor, <<>>, <<>>, patientAge, admissionCount)
    /\ RunIdle
    /\ EnhIdle
    /\ DeriveIdle
    /\ NarrIdle
    /\ MedIdle
    /\ DocIdle

\* the patient has one more row in DIAGNOSES_ICD.csv: _get_patient_diagnoses
\* takes one more turn and _process_single_patient derives from the longer list
ReadDiagnosis ==
    /\ processor = "mimic"
    /\ Len(conditions) + Len(medications) < MaxChildRows
    /\ \E raw \in DiagnosisCodes :
          /\ conditions' = AppendDiagnosis(conditions, crosswalk, raw)
          /\ features' = DerivedFields(processor, conditions', medications,
                                       patientAge, admissionCount)
    /\ UNCHANGED <<processor, crosswalk, medications, patientAge, admissionCount>>
    /\ UNCHANGED nonClinVars

\* the patient has one more row in conditions.csv: _get_patient_conditions
\* takes one more turn and _process_synthea_patient derives from the longer list
ReadCondition ==
    /\ processor = "synthea"
    /\ Len(conditions) + Len(medications) < MaxChildRows
    /\ \E condition \in ConditionRows :
          /\ conditions' = AppendCondition(conditions, crosswalk, condition)
          /\ features' = DerivedFields(processor, conditions', medications,
                                       patientAge, admissionCount)
    /\ UNCHANGED <<processor, crosswalk, medications, patientAge, admissionCount>>
    /\ UNCHANGED nonClinVars

\* the patient has one more row in medications.csv, of which the record's
\* medication_class is kept
ReadMedication ==
    /\ processor = "synthea"
    /\ Len(conditions) + Len(medications) < MaxChildRows
    /\ \E class \in MedicationClasses :
          /\ medications' = Append(medications, [medication_class |-> class])
          /\ features' = DerivedFields(processor, conditions, medications',
                                       patientAge, admissionCount)
    /\ UNCHANGED <<processor, crosswalk, conditions, patientAge, admissionCount>>
    /\ UNCHANGED nonClinVars

ClinicalNext ==
    \/ ReadDiagnosis
    \/ ReadCondition
    \/ ReadMedication

ClinicalSpec == ClinicalInit /\ [][ClinicalNext]_vars

-----------------------------------------------------------------------------
(* mimic_processor.py, synthea_processor.py: the generated texts of a patient *)

\* a value of a patients row or a Python value computed from it: a str, the
\* float nan pandas stores for an empty cell, None, or no such column
Str(text) == [kind |-> "str", text |-> text]
NaN == [kind |-> "nan"]
None == [kind |-> "None"]
Absent == [kind |-> "absent"]

\* values of the GENDER column of the sample rows
Genders == {Str(<<"M">>), Str(<<"F">>), NaN, Absent}

\* sample ages inside the age gate
NarrativeAges == {0, 70}

\* patient.get(column, default), `cell` being the row's value for the column:
\* the default only stands in for a column the row does not have
SeriesGet(cell, default) == IF cell = Absent THEN default ELSE cell

\* bool(value)
Truthy(value) ==
    CASE value.kind = "None" -> FALSE
      [] value.kind = "nan" -> TRUE
      [] value.kind = "str" -> value.text # <<>>

\* str(n) for an integer
RECURSIVE IntChars(_)
IntChars(n) ==
    IF n < 0 THEN <<"-">> \o IntChars(0 - n)
    ELSE IF n < 10 THEN <<<<"0", "1", "2", "3", "4", "5", "6", "7", "8", "9">>[n + 1]>>
    ELSE IntChars(n \div 10) \o IntChars(n % 10)

\* ', '.join(texts)
RECURSIVE JoinComma(_)
JoinComma(texts) ==
    IF texts = <<>> THEN <<>>
    ELSE IF Len(texts) = 1 THEN texts[1]
    ELSE texts[1] \o <<",", " ">> \o JoinComma(Tail(texts))

\* seq[:n]
Take(seq, n) == SubSeq(seq, 1, IF Len(seq) < n THEN Len(seq) ELSE n)

DescriptionsOf(conds) == [i \in 1..Len(conds) |-> conds[i].description]

\* the result of a call that raised
Raised == [raised |-> TRUE]

\* the result of a call that returned `text`
Returned(text) == [raised |-> FALSE, text |-> text]

\* MIMICDataProcessor._generate_summary; gender.lower() raises on a float
GenerateSummary(years, gender, conds) ==
    LET age_str == IF years # 0 THEN IntChars(years) \o <<"-", "y", "e", "a", "r", "-", "o", "l", "d">>
                   ELSE <<"a", "d", "u", "l", "t">>
    IN  IF Truthy(gender) /\ gender.kind # "str" THEN Raised
        ELSE
        LET gender_str == IF Truthy(gender) THEN Lower(gender.text)
                          ELSE <<"u", "n", "k", "n", "o", "w", "n", " ", "g", "e", "n", "d", "e", "r">>
            head == age_str \o <<" ">> \o gender_str \o <<" ", "p", "a", "t", "i", "e", "n", "t">>
        IN  IF conds = <<>> THEN Returned(head)
            ELSE Returned(
                    head \o <<" ", "w", "i", "t", "h", " ">>
                    \o JoinComma(DescriptionsOf(Take(conds, 2)))
                    \o (IF Len(conds) > 2
                        THEN <<" ", "a", "n", "d", " ">> \o IntChars(Len(conds) - 2)
                             \o <<" ", "a", "d", "d", "i", "t", "i", "o", "n", "a", "l", " ", "c", "o", "n", "d", "i", "t", "i", "o", "n", "(", "s", ")">>
                        ELSE <<>>))

\* f"{patient.get('FIRST', '')} {patient.get('LAST', '')}" of the sample rows
SampleName == <<"A", "n", "a", " ", "L", "i", "m", "a">>

IsActive(condition) == condition.status = "active"

\* SyntheaDataProcessor._generate_synthea_summary; .lower() raises on a float
GenerateSyntheaSummary(cell, years, conds) ==
    LET value == SeriesGet(cell, Str(<<"u", "n", "k", "n", "o", "w", "n", " ", "g", "e", "n", "d", "e", "r">>))
    IN  IF value.kind # "str" THEN Raised
        ELSE
        LET head == SampleName \o <<" ", "-", " ">> \o IntChars(years)
                    \o <<"-", "y", "e", "a", "r", "-", "o", "l", "d", " ">> \o Lower(value.text)
            active_conditions == SelectSeq(conds, IsActive)
        IN  IF conds = <<>>
            THEN Returned(head \o <<" ", "p", "a", "t", "i", "e", "n", "t", " ", "w", "i", "t", "h", " ", "n", "o", " ", "r", "e", "c", "o", "r", "d", "e", "d", " ", "c", "o", "n", "d", "i", "t", "i", "o", "n", "s">>)
            ELSE IF active_conditions # <<>>
            THEN Returned(
                    head \o <<" ", "w", "i", "t", "h", " ">>
                    \o JoinComma(DescriptionsOf(Take(active_conditions, 3)))
                    \o (IF Len(active_conditions) > 3
                        THEN <<" ", "a", "n", "d", " ">>
                             \o IntChars(Len(active_conditions) - 3)
                             \o <<" ", "a", "d", "d", "i", "t", "i", "o", "n", "a", "l", " ", "a", "c", "t", "i", "v", "e", " ", "c", "o", "n", "d", "i", "t", "i", "o", "n", "(", "s", ")">>
                        ELSE <<>>))
            ELSE Returned(
                    head \o <<" ", "w", "i", "t", "h", " ", "h", "i", "s", "t", "o", "r", "y", " ", "o", "f", " ">>
                    \o JoinComma(DescriptionsOf(Take(conds, 2))))

\* MIMICDataProcessor._process_single_patient past the age gate, as far as the
\* gender and the summary go: an exception of _generate_summary leaves it
DescribeMimic(s) ==
    LET summary == GenerateSummary(s.age, SeriesGet(s.GENDER, None), s.conditions)
    IN  IF summary.raised THEN [outcome |-> "error"]
        ELSE [outcome |-> "doc",
              gender |-> SeriesGet(s.GENDER, Str(<<"U", "n", "k", "n", "o", "w", "n">>)),
              title_gender |-> SeriesGet(s.GENDER, Str(<<"U", "n", "k", "n", "o", "w", "n">>)),
              summary |-> summary.text]

\* SyntheaDataProcessor._process_synthea_patient, as far as the gender and the
\* summary go; `gender` is demographics.personal.gender
DescribeSynthea(s) ==
    LET summary == GenerateSyntheaSummary(s.GENDER, s.age, s.conditions)
    IN  IF summary.raised THEN [outcome |-> "error"]
        ELSE [outcome |-> "doc",
              gender |-> SeriesGet(s.GENDER, None),
              title_gender |-> SeriesGet(s.GENDER, Str(<<"U", "n", "k", "n", "o", "w", "n">>)),
              summary |-> summary.text]

\* _get_patient_diagnoses over the rows of one patient
RECURSIVE PatientDiagnoses(_)
PatientDiagnoses(raws) ==
    IF raws = <<>> THEN <<>>
    ELSE AppendDiagnosis(PatientDiagnoses(SubSeq(raws, 1, Len(raws) - 1)),
                         Icd9ToIcd10Map, raws[Len(raws)])

\* _get_patient_conditions over the rows of one patient
RECURSIVE PatientConditions(_)
PatientConditions(crows) ==
    IF crows = <<>> THEN <<>>
    ELSE AppendCondition(PatientConditions(SubSeq(crows, 1, Len(crows) - 1)),
                         SnomedToIcd10, crows[Len(crows)])

\* the sequences of up to MaxListed elements of a set
UpToListed(S) == UNION {[1..n -> S] : n \in 0..MaxListed}

\* the sample patients: a row of either patients table inside the age gate and
\* the condition records built from the patient's child rows
Subjects ==
    {[dialect |-> "mimic", GENDER |-> g, age |-> a, conditions |-> PatientDiagnoses(ds)] :
        g \in Genders, a \in NarrativeAges,
        ds \in UpToListed(DiagnosisCodes \ {" 401.9 ", "  "})}
    \cup
    {[dialect |-> "synthea", GENDER |-> g, age |-> a, conditions |-> PatientConditions(cs)] :
        g \in Genders, a \in NarrativeAges, cs \in UpToListed(ConditionRows)}

NarrativeInit ==
    /\ subject \in Subjects
    /\ narrative = Undescribed
    /\ RunIdle
    /\ EnhIdle
    /\ DeriveIdle
    /\ ClinIdle
    /\ MedIdle
    /\ DocIdle

\* the MIMIC processor assembles the patient
DescribeMimicPatient ==
    /\ narrative = Undescribed
    /\ subject.dialect = "mimic"
    /\ narrative' = DescribeMimic(subject)
    /\ UNCHANGED subject
    /\ UNCHANGED nonNarrVars

\* the Synthea processor assembles the patient
DescribeSyntheaPatient ==
    /\ narrative = Undescribed
    /\ subject.dialect = "synthea"
    /\ narrative' = DescribeSynthea(subject)
    /\ UNCHANGED subject
    /\ UNCHANGED nonNarrVars

NarrativeNext ==
    \/ DescribeMimicPatient
    \/ DescribeSyntheaPatient

NarrativeSpec == NarrativeInit /\ [][NarrativeNext]_vars

-----------------------------------------------------------------------------
(* synthea_processor.py: the medication record built from a medications row *)

\* self.med_classes, in the order of the dict
MedClasses ==
    <<[med |-> <<"m", "e", "t", "f", "o", "r", "m", "i", "n">>,
       med_class |-> <<"A", "n", "t", "i", "d", "i", "a", "b", "e", "t", "i", "c">>],
      [med |-> <<"i", "n", "s", "u", "l", "i", "n">>,
       med_class |-> <<"A", "n", "t", "i", "d", "i", "a", "b", "e", "t", "i", "c">>],
      [med |-> <<"l", "i", "s", "i", "n", "o", "p", "r", "i", "l">>,
       med_class |-> <<"A", "C", "E", " ", "I", "n", "h", "i", "b", "i", "t", "o", "r">>],
      [med |-> <<"a", "m", "l", "o", "d", "i", "p", "i", "n", "e">>,
       med_class |-> <<"C", "a", "l", "c", "i", "u", "m", " ", "C", "h", "a", "n", "n", "e", "l", " ", "B", "l", "o", "c", "k", "e", "r">>],
      [med |-> <<"a", "t", "o", "r", "v", "a", "s", "t", "a", "t", "i", "n">>,
       med_class |-> <<"S", "t", "a", "t", "i", "n">>],
      [med |-> <<"a", "s", "p", "i", "r", "i", "n">>,
       med_class |-> <<"A", "n", "t", "i", "p", "l", "a", "t", "e", "l", "e", "t">>],
      [med |-> <<"i", "b", "u", "p", "r", "o", "f", "e", "n">>,
       med_class |-> <<"N", "S", "A", "I", "D">>]>>

\* `name_patterns` of _extract_medication_name
NamePatterns ==
    {<<"m", "g">>,
     <<"m", "l">>,
     <<"t", "a", "b", "l", "e", "t">>,
     <<"c", "a", "p", "s", "u", "l", "e">>}

UnknownMedication == <<"U", "n", "k", "n", "o", "w", "n", " ", "m", "e", "d", "i", "c", "a", "t", "i", "o", "n">>

\* str.split(): the maximal runs of characters other than blanks, in order;
\* `word` is the run in progress
RECURSIVE SplitFrom(_, _, _)
SplitFrom(text, i, word) ==
    IF i > Len(text) THEN (IF word = <<>> THEN <<>> ELSE <<word>>)
    ELSE IF text[i] = " "
         THEN (IF word = <<>> THEN <<>> ELSE <<word>>) \o SplitFrom(text, i + 1, <<>>)
         ELSE SplitFrom(text, i + 1, Append(word, text[i]))

Split(text) == SplitFrom(text, 1, <<>>)

\* SyntheaDataProcessor._extract_medication_name: the first word none of the
\* patterns occurs in, the first word when they occur in every word
ExtractMedicationName(desc) ==
    IF desc = <<>> THEN UnknownMedication
    ELSE LET words == Split(desc)
             free == {i \in 1..Len(words) :
                         \A pattern \in NamePatterns : ~Contains(Lower(words[i]), pattern)}
         IN  IF free # {} THEN words[CHOOSE i \in free : \A j \in free : i <= j]
             ELSE IF words # <<>> THEN words[1]
             ELSE UnknownMedication

\* SyntheaDataProcessor._get_medication_class: the class of the first entry of
\* the table whose drug name occurs in the lowered name
GetMedicationClass(med_name) ==
    LET med_lower == Lower(med_name)
        hits == {i \in 1..Len(MedClasses) : Contains(med_lower, MedClasses[i].med)}
    IN  IF hits = {} THEN <<"U", "n", "k", "n", "o", "w", "n">>
        ELSE MedClasses[CHOOSE i \in hits : \A j \in hits : i <= j].med_class

\* SyntheaDataProcessor._get_patient_medications: the record of one row, as far
\* as its name, description and class go
ProcessedMedication(med) ==
    LET med_name == ExtractMedicationName(med.DESCRIPTION)
    IN  [name |-> med_name,
         description |-> med.DESCRIPTION,
         medication_class |-> GetMedicationClass(med_name)]

CapitalLetters ==
    {"A", "B", "C", "D", "E", "F", "G", "H", "I", "J", "K", "L", "M", "N", "O",
     "P", "Q", "R", "S", "T", "U", "V", "W", "X", "Y", "Z"}

UpperChar(c) ==
    IF \E u \in CapitalLetters : u # c /\ LowerChar(u) = c
    THEN CHOOSE u \in CapitalLetters : u # c /\ LowerChar(u) = c
    ELSE c

\* the spellings of a drug name in the sample rows: metformin, Metformin, METFORMIN
Spellings(name) ==
    {name,
     <<UpperChar(name[1])>> \o Tail(name),
     [i \in 1..Len(name) |-> UpperChar(name[i])]}

\* what follows the drug name in the DESCRIPTION of the sample rows
Strengths ==
    {<<>>,
     <<" ", "5", " ", "M", "G", " ", "O", "r", "a", "l", " ", "T", "a", "b", "l", "e", "t">>,
     <<" ", "1", "0", "0", " ", "U", "N", "T", "/", "M", "L", " ", "I", "n", "j", "e", "c", "t", "a", "b", "l", "e", " ", "S", "o", "l", "u", "t", "i", "o", "n">>}

\* the DESCRIPTION cells of the sample medications rows: a listed drug name in
\* one of its spellings followed by a strength and form, or an empty cell
MedicationDescriptions ==
    {spelling \o strength :
        spelling \in UNION {Spellings(MedClasses[i].med) : i \in 1..Len(MedClasses)},
        strength \in Strengths}
    \cup {<<>>}

\* the conditions rows of the sample patients: diabetes and hypertension
ChronicConditionRows == {row \in ConditionRows : row.CODE \in {"44054006", "38341003"}}

\* a medications row and the condition records of the patient it belongs to
MedicationRows ==
    {[DESCRIPTION |-> d, conditions |-> PatientConditions(cs)] :
        d \in MedicationDescriptions,
        cs \in UNION {[1..n -> ChronicConditionRows] : n \in 0..2}}

MedicationInit ==
    /\ medication_row \in MedicationRows
    /\ processed_medication = Unprocessed
    /\ RunIdle
    /\ EnhIdle
    /\ DeriveIdle
    /\ ClinIdle
    /\ NarrIdle
    /\ DocIdle

\* _process_synthea_patient for a patient with this one medications row: the
\* record of the row and the care gaps found with it
ProcessMedication ==
    /\ processed_medication = Unprocessed
    /\ LET record == ProcessedMedication(medication_row)
       IN  processed_medication' =
               [outcome |-> "record",
                medication |-> record,
                care_gaps |-> IdentifyCareGaps(medication_row.conditions, <<record>>)]
    /\ UNCHANGED medication_row
    /\ UNCHANGED nonMedVars

MedicationNext == ProcessMedication

MedicationSpec == MedicationInit /\ [][MedicationNext]_vars

-----------------------------------------------------------------------------
(* process_data.py, mimic_processor.py, synthea_processor.py: the documents *)

\* a str built by an f-string or copied from a cell: its parts in order
Text(parts) == [kind |-> "str", text |-> parts]

Number(n) == [kind |-> "int", value |-> n]

Boolean(b) == [kind |-> "bool", value |-> b]

\* a value built from the child rows of the patient or from cells that hold no
\* key and no identifier: the condition, medication and observation records,
\* the summaries and scores derived from them (see ClinicalSpec)
Elsewhere == [kind |-> "derived"]

Readers ==
    {"main_mimic_patients", "main_mimic_notes", "main_mimic_labs",
     "main_synthea_patients", "enhanced_mimic_patients", "enhanced_mimic_labs",
     "enhanced_synthea_patients"}

ReaderDialect(reader) ==
    IF reader \in {"main_synthea_patients", "enhanced_synthea_patients"}
    THEN "synthea" ELSE "mimic"

\* the readers of the enhanced processors, which hold the anonymize flag
EnhancedReaders ==
    {"enhanced_mimic_patients", "enhanced_mimic_labs", "enhanced_synthea_patients"}

\* the sample persons: DOB cell of PATIENTS.csv with the days from it to the
\* reference date, and the SSN, DRIVERS and PASSPORT cells of patients.csv
Persons ==
    <<[DOB |-> "2094-03-05 00:00:00", days |-> 70 * 365 + 10,
       SSN |-> "999-76-6866", DRIVERS |-> "S99984236", PASSPORT |-> "X19277260X"],
      [DOB |-> "2094-03-06 00:00:00", days |-> 70 * 365 + 9,
       SSN |-> "999-20-1234", DRIVERS |-> "S99912345", PASSPORT |-> "X54321098X"],
      [DOB |-> "2124-03-05 00:00:00", days |-> 40 * 365 + 3,
       SSN |-> "999-51-4321", DRIVERS |-> "S99954321", PASSPORT |-> "X11223344X"]>>

\* days from the BIRTHDATE of the sample patients.csv rows to the reference date
SyntheaBirthDays == 70 * 365 + 10

\* the rows of the sample tables as the readers meet them: the natural key of
\* the patient, the person's identifiers, GENDER, and for the note and lab
\* tables the ROW_ID and whether the chart date or time is there
DocumentRows ==
    [reader : {"main_mimic_patients", "main_synthea_patients"},
     anonymize : {FALSE}, key : {1, 2}, person : 1..Len(Persons),
     GENDER : {"M", "F"}, ROW_ID : {0}, charted : {TRUE}]
    \cup
    [reader : {"enhanced_mimic_patients", "enhanced_synthea_patients"},
     anonymize : BOOLEAN, key : {1, 2}, person : 1..Len(Persons),
     GENDER : {"M", "F"}, ROW_ID : {0}, charted : {TRUE}]
    \cup
    [reader : {"main_mimic_notes", "main_mimic_labs"},
     anonymize : {FALSE}, key : {1, 2}, person : {1},
     GENDER : {"M"}, ROW_ID : {501, 502}, charted : BOOLEAN]
    \cup
    [reader : {"enhanced_mimic_labs"},
     anonymize : BOOLEAN, key : {1, 2}, person : {1},
     GENDER : {"M"}, ROW_ID : {501, 502}, charted : BOOLEAN]

\* the SUBJECT_ID or Id cell of the row
RowKey(row) ==
    LET d == ReaderDialect(row.reader)
    IN  IF d = "mimic"
        THEN (IF row.key = 1 THEN 10006 ELSE 10011)
        ELSE (IF row.key = 1 THEN "1d604da9-9a81-4ba9-80c2-de3375d59b40"
              ELSE "8b0484cd-3dbd-8b8d-1b72-a32f74a5a846")

\* the key as an f-string renders it
RowKeyText(row) ==
    IF ReaderDialect(row.reader) = "mimic" THEN ToString(RowKey(row)) ELSE RowKey(row)

\* the row as _calculate_age and the age computation of
\* _process_synthea_patient look at it
AgeCells(row) ==
    [dob |-> "valid",
     days |-> IF ReaderDialect(row.reader) = "mimic" THEN Persons[row.person].days
              ELSE SyntheaBirthDays]

\* MIMICProcessor.process_patients
MainMimicPatientDocument(row, now) ==
    ("id" :> Text(<<"patient_", RowKeyText(row)>>))
    @@ ("subject_id" :> Number(RowKey(row)))
    @@ ("demographics" :>
            [gender |-> Text(<<row.GENDER>>),
             date_of_birth |-> Text(<<Persons[row.person].DOB>>),
             date_of_death |-> None])
    @@ ("admissions_count" :> Elsewhere)
    @@ ("type" :> Text(<<"patient">>))
    @@ ("source" :> Text(<<"MIMIC-III">>))
    @@ ("timestamp" :> Text(<<now>>))
    @@ ("title" :> Text(<<"Patient ", RowKeyText(row), " - ", row.GENDER>>))
    @@ ("summary" :> Text(<<"MIMIC-III patient record with ", "0", " admission(s)">>))

\* MIMICProcessor.process_clinical_notes
MainMimicNoteDocument(row, now) ==
    ("id" :> Text(<<"note_", ToString(row.ROW_ID)>>))
    @@ ("patient_id" :> Text(<<"patient_", RowKeyText(row)>>))
    @@ ("admission_id" :> None)
    @@ ("category" :> Text(<<"Nursing">>))
    @@ ("description" :> Text(<<"Report">>))
    @@ ("content" :> Text(<<"Chest clear.">>))
    @@ ("chart_date" :> IF row.charted THEN Text(<<"2164-10-23T00:00:00">>) ELSE None)
    @@ ("type" :> Text(<<"clinical-note">>))
    @@ ("source" :> Text(<<"MIMIC-III">>))
    @@ ("timestamp" :> Text(<<now>>))
    @@ ("title" :> Text(<<"Nursing", " - ", "Report">>))
    @@ ("summary" :> Text(<<"Chest clear.">>))

\* MIMICProcessor.process_lab_events
MainMimicLabDocument(row, now) ==
    ("id" :> Text(<<"lab_", ToString(row.ROW_ID)>>))
    @@ ("patient_id" :> Text(<<"patient_", RowKeyText(row)>>))
    @@ ("admission_id" :> None)
    @@ ("item_id" :> Number(50912))
    @@ ("test_name" :> Text(<<"Creatinine">>))
    @@ ("value" :> Text(<<"1.2">>))
    @@ ("value_num" :> Text(<<"1.2">>))
    @@ ("unit" :> Text(<<"mg/dL">>))
    @@ ("flag" :> NaN)
    @@ ("chart_time" :> IF row.charted THEN Text(<<"2164-10-23T07:00:00">>) ELSE None)
    @@ ("type" :> Text(<<"lab-result">>))
    @@ ("source" :> Text(<<"MIMIC-III">>))
    @@ ("timestamp" :> Text(<<now>>))
    @@ ("title" :> Text(<<"Creatinine", " - ", "1.2">>))
    @@ ("summary" :> Text(<<"Lab result: ", "Creatinine", " = ", "1.2", " ", "mg/dL">>))

\* SyntheaProcessor.process_patients
MainSyntheaPatientDocument(row, now) ==
    ("id" :> Text(<<"synthea_patient_", RowKeyText(row)>>))
    @@ ("synthea_id" :> Text(<<RowKeyText(row)>>))
    @@ ("demographics" :>
            [birth_date |-> Text(<<"1954-02-20">>),
             death_date |-> None,
             ssn |-> Text(<<Persons[row.person].SSN>>),
             drivers |-> Text(<<Persons[row.person].DRIVERS>>),
             passport |-> Text(<<Persons[row.person].PASSPORT>>),
             first_name |-> Text(<<"Ana">>),
             last_name |-> Text(<<"Lima">>),
             gender |-> Text(<<row.GENDER>>),
             address |-> Text(<<"12 Elm Street">>)])
    @@ ("healthcare_expenses" :> Elsewhere)
    @@ ("healthcare_coverage" :> Elsewhere)
    @@ ("type" :> Text(<<"patient">>))
    @@ ("source" :> Text(<<"Synthea">>))
    @@ ("timestamp" :> Text(<<now>>))
    @@ ("title" :> Text(<<"Patient ", "Ana", " ", "Lima", " - ", row.GENDER>>))
    @@ ("summary" :> Text(<<"Synthea synthetic patient - ", "white", " ", row.GENDER>>))

\* MIMICDataProcessor._process_single_patient, for a row inside the age gate
EnhancedMimicPatientDocument(row, now) ==
    LET patient_id == MimicPatientId(RowKey(row), row.anonymize)
        years == CalculateAge(AgeCells(row))[1]
    IN  ("id" :> Text(<<patient_id>>))
        @@ ("demographics" :>
                [age |-> Number(years),
                 gender |-> Text(<<row.GENDER>>),
                 date_of_birth |-> IF ~row.anonymize
                                   THEN Text(<<Persons[row.person].DOB>>) ELSE None,
                 is_deceased |-> Boolean(FALSE)])
        @@ ("conditions" :> Elsewhere)
        @@ ("admissions_summary" :> Elsewhere)
        @@ ("risk_factors" :> Elsewhere)
        @@ ("complexity_score" :> Elsewhere)
        @@ ("type" :> Text(<<"patient">>))
        @@ ("source" :> Text(<<"MIMIC-III">>))
        @@ ("timestamp" :> Text(<<now>>))
        @@ ("title" :> Text(<<"Patient ", patient_id, " - ", ToString(years), "yr ",
                              row.GENDER>>))
        @@ ("summary" :> Text(<<ToString(years), "-year-old", " ", row.GENDER,
                                " patient">>))

\* a faulty variant: the chart time is filed under chart_time, as the reader
\* wired into main does, and the document has no timestamp
EnhancedMimicLabDocumentChartTime(row, now) ==
    ("id" :> Text(<<"lab_", ToString(row.ROW_ID)>>))
    @@ ("patient_id" :> Text(<<MimicPatientId(RowKey(row), row.anonymize)>>))
    @@ ("test_name" :> Text(<<"Creatinine">>))
    @@ ("value" :> Text(<<"1.2">>))
    @@ ("value_num" :> Text(<<"1.2">>))
    @@ ("unit" :> Text(<<"mg/dL">>))
    @@ ("flag" :> NaN)
    @@ ("chart_time" :> IF row.charted THEN Text(<<"2164-10-23T07:00:00">>) ELSE None)
    @@ ("type" :> Text(<<"lab-result">>))
    @@ ("source" :> Text(<<"MIMIC-III">>))
    @@ ("title" :> Text(<<"Creatinine", " - ", "1.2">>))
    @@ ("summary" :> Text(<<"Lab result: ", "Creatinine", " = ", "1.2", " ", "mg/dL">>))
    @@ ("interpretation" :> Elsewhere)

\* MIMICDataProcessor.process_lab_events_enhanced: `timestamp` is the chart
\* time of the row, None when the CHARTTIME cell is empty
EnhancedMimicLabDocument(row, now) ==
    ("id" :> Text(<<"lab_", ToString(row.ROW_ID)>>))
    @@ ("patient_id" :> Text(<<MimicPatientId(RowKey(row), row.anonymize)>>))
    @@ ("test_name" :> Text(<<"Creatinine">>))
    @@ ("value" :> Text(<<"1.2">>))
    @@ ("value_num" :> Text(<<"1.2">>))
    @@ ("unit" :> Text(<<"mg/dL">>))
    @@ ("flag" :> NaN)
    @@ ("timestamp" :> IF row.charted THEN Text(<<"2164-10-23T07:00:00">>) ELSE None)
    @@ ("type" :> Text(<<"lab-result">>))
    @@ ("source" :> Text(<<"MIMIC-III">>))
    @@ ("title" :> Text(<<"Creatinine", " - ", "1.2">>))
    @@ ("summary" :> Text(<<"Lab result: ", "Creatinine", " = ", "1.2", " ", "mg/dL">>))
    @@ ("interpretation" :> Elsewhere)

\* SyntheaDataProcessor._process_synthea_demographics
ProcessSyntheaDemographics(row, years) ==
    [age |-> Number(years),
     birth_date |-> Text(<<"1954-02-20">>),
     death_date |-> None,
     is_deceased |-> Boolean(FALSE),
     ssn |-> IF ~row.anonymize THEN Text(<<Persons[row.person].SSN>>) ELSE None,
     drivers_license |-> IF ~row.anonymize THEN Text(<<Persons[row.person].DRIVERS>>)
                         ELSE None,
     passport |-> IF ~row.anonymize THEN Text(<<Persons[row.person].PASSPORT>>)
                  ELSE None,
     name |-> [first |-> Text(<<"Ana">>), last |-> Text(<<"Lima">>)],
     personal |-> [gender |-> Text(<<row.GENDER>>), race |-> Text(<<"white">>)],
     location |-> [address |-> Text(<<"12 Elm Street">>), zip |-> Text(<<"01001">>)],
     financial |-> Elsewhere]

\* SyntheaDataProcessor._process_synthea_patient
EnhancedSyntheaPatientDocument(row, now) ==
    LET patient_id == RowKey(row)
        years == SyntheaAge(AgeCells(row))
    IN  ("id" :> Text(<<SyntheaPatientId(patient_id, row.anonymize)>>))
        @@ ("synthea_id" :> Text(<<patient_id>>))
        @@ ("demographics" :> ProcessSyntheaDemographics(row, years))
        @@ ("conditions" :> Elsewhere)
        @@ ("medications" :> Elsewhere)
        @@ ("encounters_summary" :> Elsewhere)
        @@ ("vital_signs" :> Elsewhere)
        @@ ("lab_results" :> Elsewhere)
        @@ ("healthcare_utilization" :> Elsewhere)
        @@ ("social_determinants" :> Elsewhere)
        @@ ("risk_profile" :> Elsewhere)
        @@ ("care_gaps" :> Elsewhere)
        @@ ("type" :> Text(<<"patient">>))
        @@ ("source" :> Text(<<"Synthea">>))
        @@ ("timestamp" :> Text(<<now>>))
        @@ ("title" :> Text(<<"Patient ", "Ana", " ", "Lima", " - ", ToString(years),
                              "yr ", row.GENDER>>))
        @@ ("summary" :> Text(<<"Ana", " ", "Lima", " - ", ToString(years),
                                "-year-old", " ", row.GENDER,
                                " patient with no recorded conditions">>))
        @@ ("data_completeness" :> Elsewhere)

\* the document the row's reader yields for it
DocumentOf(row, now) ==
    CASE row.reader = "main_mimic_patients" -> MainMimicPatientDocument(row, now)
      [] row.reader = "main_mimic_notes" -> MainMimicNoteDocument(row, now)
      [] row.reader = "main_mimic_labs" -> MainMimicLabDocument(row, now)
      [] row.reader = "main_synthea_patients" -> MainSyntheaPatientDocument(row, now)
      [] row.reader = "enhanced_mimic_patients" -> EnhancedMimicPatientDocument(row, now)
      [] row.reader = "enhanced_mimic_labs" -> EnhancedMimicLabDocument(row, now)
      [] row.reader = "enhanced_synthea_patients" -> EnhancedSyntheaPatientDocument(row, now)

DocumentInit ==
    /\ source_row \in DocumentRows
    /\ clock \in Times
    /\ document = NoDocument
    /\ RunIdle
    /\ EnhIdle
    /\ DeriveIdle
    /\ ClinIdle
    /\ NarrIdle
    /\ MedIdle

\* the reader `which` assembles and yields the document of its row
Yield(which) ==
    /\ document = NoDocument
    /\ source_row.reader = which
    /\ document' = DocumentOf(source_row, clock)
    /\ UNCHANGED <<source_row, clock>>
    /\ UNCHANGED nonDocVars

YieldMainMimicPatient == Yield("main_mimic_patients")

YieldMainMimicNote == Yield("main_mimic_notes")

YieldMainMimicLab == Yield("main_mimic_labs")

YieldMainSyntheaPatient == Yield("main_synthea_patients")

YieldEnhancedMimicPatient == Yield("enhanced_mimic_patients")

YieldEnhancedMimicLab == Yield("enhanced_mimic_labs")

YieldEnhancedSyntheaPatient == Yield("enhanced_synthea_patients")

DocumentNext ==
    \/ YieldMainMimicPatient
    \/ YieldMainMimicNote
    \/ YieldMainMimicLab
    \/ YieldMainSyntheaPatient
    \/ YieldEnhancedMimicPatient
    \/ YieldEnhancedMimicLab
    \/ YieldEnhancedSyntheaPatient

DocumentSpec == DocumentInit /\ [][DocumentNext]_vars

-----------------------------------------------------------------------------
(* Properties of the run *)

RECURSIVE Flatten(_)
Flatten(calls) ==
    IF calls = <<>> THEN <<>> ELSE calls[1].docs \o Flatten(Tail(calls))

\* the documents the current stage's reader has yielded so far, in yield order
Yielded == [i \in 1..nyield |-> Doc(stage, i)]

BatchSizes == [i \in 1..Len(handed) |-> Len(handed[i].docs)]

\* C1: with threshold T >= 1 and N documents yielded in a stage, bulk_index is
\* called floor(N/T) times with exactly T documents and then once more with the
\* N mod T remaining ones iff that remainder is not zero; the documents handed
\* over number N in total. While the loop runs, only full batches have been handed.
BatchFlushBoundaries ==
    /\ pc \in {"reading", "final_flush"} =>
            /\ Len(handed) = nyield \div batch_size
            /\ \A i \in 1..Len(handed) : BatchSizes[i] = batch_size
    /\ pc = "drained" =>
            /\ Len(handed) = (nyield \div batch_size)
                             + (IF nyield % batch_size # 0 THEN 1 ELSE 0)
            /\ \A i \in 1..(nyield \div batch_size) : BatchSizes[i] = batch_size
            /\ nyield % batch_size # 0 =>
                    BatchSizes[Len(handed)] = nyield % batch_size
            /\ Len(Flatten(handed)) = nyield

\* a stage of 7 documents under threshold 3 has ended with batches of 3, 3 and 1
BatchFlushBoundariesWitness ==
    /\ pc = "drained"
    /\ batch_size = 3
    /\ nyield = 7
    /\ BatchSizes = <<3, 3, 1>>

\* C2: whatever bulk_index returned, the batch is emptied after a flush and its
\* documents are not handed over again: the batches handed so far, followed by
\* the documents still in the batch, are exactly the documents the reader
\* yielded, each once and in yield order; once the stage is drained the batches
\* handed over are all of them.
NoResubmission ==
    /\ pc \in {"reading", "flush", "final_flush"} =>
            Flatten(handed) \o batch = Yielded
    /\ pc = "drained" => Flatten(handed) = Yielded

\* a stage has ended whose first flush failed and was followed by further batches
NoResubmissionWitness ==
    /\ pc = "drained"
    /\ Len(handed) >= 3
    /\ ~handed[1].result
    /\ ~handed[2].result
    /\ handed[3].result

\* the stages args.dataset selects, in the order main runs them
RECURSIVE SelectedFrom(_, _)
SelectedFrom(d, s) ==
    IF s > Len(StageOrder) THEN <<>>
    ELSE (IF StageSelected(d, s) THEN <<s>> ELSE <<>>) \o SelectedFrom(d, s + 1)

SinkUnreachableAborts == unreachableSeen => pc = "exit"

\* C5: in every patient reader, a source in which exactly one record raises
\* yields the documents of all its other records, those after the bad record
\* as well as those before it. Stated for the patient readers wired into main,
\* which skip no row: a row that was read and yielded nothing is one that raised.
MainReaderIsolatesBadRecord ==
    (/\ pc = "drained"
     /\ StageOrder[stage] \in {"mimic_patients", "synthea_patients"}
     /\ nread - nyield = 1)
        => nyield = srcLen - 1

-----------------------------------------------------------------------------
(* Properties of the enhanced processors *)

\* C6: in both dialects a patient whose age is uncomputable or outside [0,120]
\* produces no document and a patient whose age is inside produces one, so that
\* every emitted document has 0 <= demographics.age <= 120.
AgeValidityGate ==
    /\ last.outcome = "doc" => (0 <= last.doc.age /\ last.doc.age <= 120)
    /\ (/\ last.outcome # "none"
        /\ last.row.dob = "valid"
        /\ last.row.days \div 365 \in 0..120
        /\ ~last.row.raises) => last.outcome = "doc"

PlainIdPrefix(d) == IF d = "mimic" THEN "patient_" ELSE "synthea_patient_"

KeyText(d, key) == IF d = "mimic" THEN ToString(key) ELSE key

\* 8-character hex digests
Hex8Digests == {"ceea2631", "912afa0f", "6d161175"}

\* C8: in each dialect the id is, when anonymization is requested, a prefix
\* followed by the first 8 hex characters of a digest, and otherwise a prefix
\* followed by the natural key verbatim; the id produced with the flag on
\* differs from the one produced with the flag off.
AnonymizedIdIsDigest ==
    last.outcome = "doc" =>
        IF anonymize
        THEN /\ \E p \in {"pat_", "patient_", "synthea_patient_"}, h \in Hex8Digests :
                    last.doc.id = p \o h
             /\ last.doc.id # PlainIdPrefix(dialect) \o KeyText(dialect, last.row.key)
        ELSE last.doc.id = PlainIdPrefix(dialect) \o KeyText(dialect, last.row.key)

-----------------------------------------------------------------------------
(* Properties of the classifiers *)

Classified == severity.mimic # "none" /\ severity.synthea # "none"

\* C9: in both dialects the severe keywords are tested before the moderate
\* ones: a description that contains "severe" and a moderate keyword is
\* classified severe, never moderate, and a description with no keyword of
\* either list of a classifier is classified mild by it.
SeverePrecedence ==
    LET text == Lower(description)
    IN  /\ (/\ Classified
            /\ Contains(text, TermSevere)
            /\ AnyTermIn({TermChronic, TermModerate}, text))
                => (severity.mimic = "severe" /\ severity.synthea = "severe")
        /\ (/\ severity.mimic # "none"
            /\ ~AnyTermIn(MimicSevereTerms \cup MimicModerateTerms, text))
                => severity.mimic = "mild"
        /\ (/\ severity.synthea # "none"
            /\ ~AnyTermIn(SyntheaSevereTerms \cup SyntheaModerateTerms, text))
                => severity.synthea = "mild"

\* "Chronic Severe asthma" has been classified by both processors
SeverePrecedenceWitness ==
    /\ Classified
    /\ description = JoinWords(<<<<"C", "h", "r", "o", "n", "i", "c">>, <<"S", "e", "v", "e", "r", "e">>, <<"a", "s", "t", "h", "m", "a">>>>)
    /\ severity.mimic = "severe"

\* C10: in both dialects every description that contains one of the five severe
\* terms "severe", "acute", "crisis", "emergency", "end stage" is classified
\* severe, so that the two classifiers agree on it.
FiveSevereTermsBothDialects ==
    (/\ Classified
     /\ AnyTermIn({TermSevere, TermAcute, TermCrisis, TermEmergency, TermEndStage},
                  Lower(description)))
        => (severity.mimic = "severe" /\ severity.synthea = "severe")

\* the positions of `categories` one of whose keywords occurs in the text
CategoryHits(categories, text) ==
    {i \in 1..Len(categories) : AnyTermIn(categories[i].keywords, text)}

\* the category of the lowest position that hits, "general" without a hit
EarliestCategory(categories, text) ==
    LET hits == CategoryHits(categories, text)
    IN  IF hits = {} THEN "general"
        ELSE categories[CHOOSE i \in hits : \A j \in hits : i <= j].category

\* C11: each categorizer returns the first category, in the declared order of
\* its table, one of whose keywords occurs in the description regardless of
\* case, and "general" exactly when no keyword of any category occurs. A
\* description naming both hypertension and diabetes is cardiovascular in both
\* dialects, and one naming pneumonia is never infectious: the respiratory
\* category, declared earlier, lists it too.
CategorizeFirstMatch ==
    LET text == Lower(description)
    IN  /\ category.mimic # "none" =>
            /\ category.mimic = EarliestCategory(MimicCategories, text)
            /\ (category.mimic = "general") <=> (CategoryHits(MimicCategories, text) = {})
        /\ category.synthea # "none" =>
            /\ category.synthea = EarliestCategory(SyntheaCategories, text)
            /\ (category.synthea = "general") <=> (CategoryHits(SyntheaCategories, text) = {})
            /\ Contains(text, <<"p", "n", "e", "u", "m", "o", "n", "i", "a">>)
                   => category.synthea # "infectious"
        /\ (/\ category.mimic # "none"
            /\ category.synthea # "none"
            /\ Contains(text, <<"h", "y", "p", "e", "r", "t", "e", "n", "s", "i", "o", "n">>)
            /\ Contains(text, <<"d", "i", "a", "b", "e", "t", "e", "s">>))
               => (category.mimic = "cardiovascular" /\ category.synthea = "cardiovascular")

\* "Diabetes Pneumonia Hypertension" has been categorized by both processors
CategorizeFirstMatchWitness ==
    /\ description = JoinWords(<<<<"D", "i", "a", "b", "e", "t", "e", "s">>, <<"P", "n", "e", "u", "m", "o", "n", "i", "a">>, <<"H", "y", "p", "e", "r", "t", "e", "n", "s", "i", "o", "n">>>>)
    /\ category.mimic = "cardiovascular"
    /\ category.synthea = "cardiovascular"

-----------------------------------------------------------------------------
(* Properties of the clinical picture *)

\* the positions of the conditions whose description names a high-risk term
HighRiskPositions ==
    {i \in 1..Len(conditions) :
        \E term \in HighRiskConditions :
            Contains(Lower(conditions[i].description), term)}

\* the points the age contributes to the risk score
AgePoints(years) == IF years > 65 THEN 2 ELSE IF years > 45 /\ years <= 65 THEN 1 ELSE 0

\* C12: the Synthea risk score is the age points (2 above 65, 1 above 45 up to
\* 65, else 0) plus one point per condition whose description names a high-risk
\* term, however many terms it names; risk_factors holds one entry per source of
\* points, the age label first and then the counted descriptions in order; the
\* level is high from 4, medium from 2 and low below. Age 65 scores 1 and age
\* 45 scores 0.
RiskProfileScore ==
    processor = "synthea" =>
        LET rp == features.risk_profile
            hits == HighRiskPositions
            by_age == AgePoints(patientAge)
            labels == IF by_age = 0 THEN 0 ELSE 1
            Nth(k) == CHOOSE i \in hits : Cardinality({j \in hits : j <= i}) = k
        IN  /\ rp.overall_risk_score = by_age + Cardinality(hits)
            /\ Len(rp.risk_factors) = labels + Cardinality(hits)
            /\ by_age = 2 => rp.risk_factors[1] = AdvancedAge
            /\ by_age = 1 => rp.risk_factors[1] = MiddleAge
            /\ \A k \in 1..Cardinality(hits) :
                   rp.risk_factors[labels + k] = conditions[Nth(k)].description
            /\ (rp.risk_level = "high") <=> (rp.overall_risk_score >= 4)
            /\ (rp.risk_level = "medium") <=>
                   (rp.overall_risk_score >= 2 /\ rp.overall_risk_score < 4)
            /\ (rp.risk_level = "low") <=> (rp.overall_risk_score < 2)
            /\ (patientAge = 65 /\ conditions = <<>>) => rp.overall_risk_score = 1
            /\ (patientAge = 45 /\ conditions = <<>>) => rp.overall_risk_score = 0

\* a patient of 65 with a condition naming two high-risk terms and one naming
\* none: one point for the age, one for the first condition
RiskProfileScoreWitness ==
    /\ processor = "synthea"
    /\ patientAge = 65
    /\ Len(conditions) = 2
    /\ conditions[1].snomed_code = "88805009"
    /\ conditions[2].snomed_code = "195662009"
    /\ features.risk_profile.overall_risk_score = 2
    /\ features.risk_profile.risk_level = "medium"

\* low, medium, high as 0, 1, 2
LevelRank(level) == IF level = "high" THEN 2 ELSE IF level = "medium" THEN 1 ELSE 0

\* C13: adding a condition to a patient's list never lowers the Synthea risk
\* score and never moves the risk level down, and with the same conditions the
\* score at age 70 is strictly greater than the score at age 30.
RiskProfileMonotone ==
    processor = "synthea" =>
        /\ \A condition \in ConditionRows :
               LET before == features.risk_profile
                   after == AssessRiskProfile(
                                AppendCondition(conditions, crosswalk, condition),
                                patientAge)
               IN  /\ after.overall_risk_score >= before.overall_risk_score
                   /\ LevelRank(after.risk_level) >= LevelRank(before.risk_level)
        /\ AssessRiskProfile(conditions, 70).overall_risk_score
               > AssessRiskProfile(conditions, 30).overall_risk_score

\* a patient of 46 with one high-risk condition is at medium risk, and one more
\* high-risk condition would leave the level medium with a higher score
RiskProfileMonotoneWitness ==
    /\ processor = "synthea"
    /\ patientAge = 46
    /\ Len(conditions) = 1
    /\ conditions[1].snomed_code = "44054006"
    /\ features.risk_profile.risk_level = "medium"
    /\ AssessRiskProfile(AppendCondition(conditions, crosswalk,
                              CHOOSE c \in ConditionRows : c.CODE = "38341003"),
                          patientAge).overall_risk_score = 3

\* the descriptions of the patient's conditions, lowered
LoweredDescriptions == {Lower(conditions[i].description) : i \in 1..Len(conditions)}

\* the classes of the patient's medications
ClassesTaken == {medications[i].medication_class : i \in 1..Len(medications)}

\* the entries of the care gap list
CareGaps == {features.care_gaps[i] : i \in 1..Len(features.care_gaps)}

\* C14: the Synthea care gaps contain "diabetes_without_medication" exactly
\* when a condition description names diabetes in any case and no medication
\* has an antidiabetic class, and "hypertension_without_medication" exactly
\* when a description names hypertension and no medication class is one of ACE
\* Inhibitor, Calcium Channel Blocker, Beta Blocker. Each rule depends only on
\* which descriptions and classes occur, not on their order nor on the other
\* rule, and one more medication of the matching class removes the gap.
CareGapRules ==
    processor = "synthea" =>
        /\ ("diabetes_without_medication" \in CareGaps) <=>
               /\ \E d \in LoweredDescriptions :
                      Contains(d, <<"d", "i", "a", "b", "e", "t", "e", "s">>)
               /\ \A c \in ClassesTaken :
                      ~Contains(Lower(c), <<"a", "n", "t", "i", "d", "i", "a", "b", "e", "t", "i", "c">>)
        /\ ("hypertension_without_medication" \in CareGaps) <=>
               /\ \E d \in LoweredDescriptions :
                      Contains(d, <<"h", "y", "p", "e", "r", "t", "e", "n", "s", "i", "o", "n">>)
               /\ ClassesTaken \cap
                      {<<"A", "C", "E", " ", "I", "n", "h", "i", "b", "i", "t", "o", "r">>,
                       <<"C", "a", "l", "c", "i", "u", "m", " ", "C", "h", "a", "n", "n", "e", "l", " ", "B", "l", "o", "c", "k", "e", "r">>,
                       <<"B", "e", "t", "a", " ", "B", "l", "o", "c", "k", "e", "r">>} = {}
        /\ CareGaps \subseteq {"diabetes_without_medication",
                                "hypertension_without_medication"}
        /\ LET with_diabetes_med ==
                   IdentifyCareGaps(conditions,
                       Append(medications,
                              [medication_class |-> <<"A", "n", "t", "i", "d", "i", "a", "b", "e", "t", "i", "c">>]))
           IN  \A i \in 1..Len(with_diabetes_med) :
                   with_diabetes_med[i] # "diabetes_without_medication"
        /\ \A class \in {<<"A", "C", "E", " ", "I", "n", "h", "i", "b", "i", "t", "o", "r">>,
                       <<"C", "a", "l", "c", "i", "u", "m", " ", "C", "h", "a", "n", "n", "e", "l", " ", "B", "l", "o", "c", "k", "e", "r">>,
                       <<"B", "e", "t", "a", " ", "B", "l", "o", "c", "k", "e", "r">>} :
               LET with_bp_med ==
                       IdentifyCareGaps(conditions,
                           Append(medications, [medication_class |-> class]))
               IN  \A i \in 1..Len(with_bp_med) :
                       with_bp_med[i] # "hypertension_without_medication"

\* a patient with hypertension and diabetes who takes a beta blocker: the
\* diabetes gap only
CareGapRulesWitness ==
    /\ processor = "synthea"
    /\ Len(conditions) = 2
    /\ conditions[1].snomed_code = "38341003"
    /\ conditions[2].snomed_code = "44054006"
    /\ ClassesTaken = {<<"B", "e", "t", "a", " ", "B", "l", "o", "c", "k", "e", "r">>}
    /\ features.care_gaps = <<"diabetes_without_medication">>

\* the conditions classified severe
SevereCount == Cardinality({i \in 1..Len(conditions) : conditions[i].severity = "severe"})

\* C15: the MIMIC complexity score is min(20.0, 0.5 per condition + 2.0 per
\* severe condition + 0.3 per admission), in tenths min(200, 5c + 20s + 3a): it
\* is never above 20 nor below 0, it is 0 for a patient without conditions and
\* admissions, and one more condition or one more admission never lowers it.
ComplexityScoreCapped ==
    processor = "mimic" =>
        LET raw == 5 * Len(conditions) + 20 * SevereCount + 3 * admissionCount
            score == features.complexity_score
        IN  /\ score = IF raw <= 200 THEN raw ELSE 200
            /\ score <= 200
            /\ score >= 0
            /\ (conditions = <<>> /\ admissionCount = 0) => score = 0
            /\ CalculateComplexity(conditions, admissionCount + 1) >= score
            /\ \A code \in DiagnosisCodes :
                   CalculateComplexity(AppendDiagnosis(conditions, crosswalk, code),
                                       admissionCount) >= score

\* three conditions, one of them end-stage renal disease, and 60 admissions:
\* 1.5 + 2.0 + 18.0 is capped at 20.0
ComplexityScoreCappedWitness ==
    /\ processor = "mimic"
    /\ admissionCount = 60
    /\ Len(conditions) = 3
    /\ SevereCount = 1
    /\ features.complexity_score = 200

\* the source code of a condition record
SourceCode(condition) ==
    IF processor = "mimic" THEN condition.icd9_code ELSE condition.snomed_code

\* C16: in both dialects the code looked up while a condition record is built
\* is the crosswalk's target when the source code is a key of the static table
\* and the source code itself, unchanged, when it is not; it is never empty, and
\* the lookups leave the processor's table as it was constructed.
CrosswalkLookup ==
    processor \in Dialects =>
        LET table == IF processor = "mimic" THEN Icd9ToIcd10Map ELSE SnomedToIcd10
        IN  /\ \A i \in 1..Len(conditions) :
                   LET source == SourceCode(conditions[i])
                       target == conditions[i].icd10_code
                   IN  /\ source \in DOMAIN table => target = table[source]
                       /\ source \notin DOMAIN table => target = source
                       /\ target # ""
            /\ crosswalk = table

\* a MIMIC patient with essential hypertension, in the table, and heart failure
\* 428.0, not in it
CrosswalkLookupWitness ==
    /\ processor = "mimic"
    /\ Len(conditions) = 2
    /\ conditions[1].icd9_code = "401.9"
    /\ conditions[1].icd10_code = "I10"
    /\ conditions[2].icd9_code = "428.0"
    /\ conditions[2].icd10_code = "428.0"

-----------------------------------------------------------------------------
(* Properties of the enhanced patient readers *)

\* the row passes the age gate of its dialect, its birth date parses and no
\* step raises on it
ValidPatient(d, row) ==
    /\ row.dob = "valid"
    /\ ~row.raises
    /\ d = "mimic" => (row.days \div 365) \in 0..120

\* C17: a missing source file never raises and never aborts. When the patients
\* table of a dialect is missing its reader ends without a document, as an
\* empty sequence does; when the child tables are missing the reader does not
\* raise, every valid patient yields a document, and that document has empty
\* collections and zero counts in its summaries.
MissingFileNeverAborts ==
    /\ (gen # "created" /\ files.patients = "missing") =>
           (gen = "ended" /\ rows = 0 /\ rowsDone = 0 /\ last = NoRow)
    /\ (gen # "created" /\ files.patients = "present" /\ files.children = "missing") =>
           /\ gen # "raised"
           /\ (last.outcome # "none" /\ ValidPatient(dialect, last.row)) =>
                  (/\ last.outcome = "doc"
                   /\ last.doc.conditions = 0
                   /\ last.doc.total = 0)

\* the Synthea reader has yielded the document of a valid patient although the
\* child tables are missing
MissingFileNeverAbortsWitness ==
    /\ dialect = "synthea"
    /\ files = [patients |-> "present", children |-> "missing"]
    /\ gen = "suspended"
    /\ last.outcome = "doc"
    /\ last.doc.conditions = 0

\* C18: when loading a source file raises, the reader behaves as an empty
\* sequence: it ends, and no exception leaves it.
LoadFailureEndsReader ==
    (/\ gen # "created"
     /\ (files.patients = "unreadable" \/ files.children = "unreadable"))
        => gen = "ended"

\* the rows the statistics account for
Counted ==
    stats.patients_processed + stats.invalid_age + stats.processing_errors
    + stats.patient_processing_errors

\* C20: the statistics are reset when a run starts, so that at the end of a run,
\* the second on the same processor included, the counters account for no more
\* rows than that run has processed.
StatisticsCountThisRun ==
    gen = "ended" => Counted <= rowsDone

-----------------------------------------------------------------------------
(* Properties of the generated texts *)

\* C19: in both dialects a patient row whose gender is absent or null is not
\* rejected: it yields a document whose gender field is "Unknown", and raises
\* no error for the row loop to count.
MissingGenderIsUnknown ==
    (narrative # Undescribed /\ subject.GENDER \in {NaN, Absent}) =>
        /\ narrative.outcome = "doc"
        /\ narrative.gender = Str(<<"U", "n", "k", "n", "o", "w", "n">>)

-----------------------------------------------------------------------------
(* Properties of the staged run *)

\* the run is past its connection test and about to enter its first stage
ConnectionTestPassed == pc = "stage_begin" /\ drained = <<>>

\* the stages are entered in main's order, restricted to the selected dataset
StagesInFixedOrder ==
    LET selected == SelectedFrom(dataset, 1)
    IN  /\ Len(drained) <= Len(selected)
        /\ drained = SubSeq(selected, 1, Len(drained))
        /\ pc \in {"stage_begin", "reading", "flush", "final_flush", "drained"} =>
                /\ Len(drained) < Len(selected)
                /\ stage = selected[Len(drained) + 1]
        /\ pc = "done" => drained = selected

\* the batch variable holds nothing between two stages and at the end
BatchEmptyAtBoundaries == pc \in {"drained", "stage_begin", "done"} => batch = <<>>

\* C21: every run that passes the connection test goes through the selected
\* stages in the fixed order MIMIC patients, notes, labs, Synthea patients,
\* each stage reading, sinking and draining before the next one starts; the
\* batch is empty at every stage boundary and at completion, and the run
\* eventually reaches its end.
StagedRunCompletes ==
    /\ [](StagesInFixedOrder /\ BatchEmptyAtBoundaries)
    /\ ConnectionTestPassed ~> (pc = "done")

\* the index the documents of a stage belong in
IndexOfKind(kind) ==
    IF kind = "mimic_notes" THEN "clinical-notes"
    ELSE IF kind = "mimic_labs" THEN "lab-results"
    ELSE "patients"

\* C27: every batch handed to bulk_index holds documents of a single stage, the
\* stage whose loop made the call, and goes to that stage's index: patients for
\* the two patient stages, clinical-notes for the notes, lab-results for the
\* labs. No document is handed over in a later stage's batch, whatever the
\* threshold and whichever writes fail.
BatchOfOneStage ==
    /\ \A i \in 1..Len(handed) :
            \E s \in 1..Len(StageOrder) :
                /\ \A k \in 1..Len(handed[i].docs) : handed[i].docs[k].stage = s
                /\ handed[i].index = IndexOfKind(StageOrder[s])
                /\ pc \in {"reading", "flush", "final_flush", "drained"} => s = stage
                /\ pc \in {"stage_begin", "done"} => s = drained[Len(drained)]
    /\ pc \in {"reading", "flush", "final_flush"} =>
            \A k \in 1..Len(batch) : batch[k].stage = stage

\* the lab stage of a run over both datasets has ended with two batches handed
\* to lab-results, the first of which failed, after earlier stages had ended
BatchOfOneStageWitness ==
    /\ pc = "drained"
    /\ StageOrder[stage] = "mimic_labs"
    /\ drained = <<1, 2>>
    /\ Len(handed) = 2
    /\ ~handed[1].result
    /\ handed[2].index = "lab-results"
    /\ Len(handed[2].docs) = 1
-----------------------------------------------------------------------------
(* Properties of the generated summaries *)

\* whether `text` ends with `tail`
EndsWith(text, tail) ==
    /\ Len(text) >= Len(tail)
    /\ SubSeq(text, Len(text) - Len(tail) + 1, Len(text)) = tail

\* whether `text` starts with `head`
StartsWith(text, head) ==
    /\ Len(text) >= Len(head)
    /\ SubSeq(text, 1, Len(head)) = head

\* the conditions a summary is drawn from: the active ones of a Synthea patient
\* who has any, else all of the patient's conditions
DrawnFrom ==
    IF subject.dialect = "synthea" /\ SelectSeq(subject.conditions, IsActive) # <<>>
    THEN SelectSeq(subject.conditions, IsActive)
    ELSE subject.conditions

\* how many of them the summary names: the longest run of leading descriptions
\* that the summary lists
NamedIn(summary) ==
    LET listed == {n \in 1..Len(DrawnFrom) :
                      Contains(summary, JoinComma(DescriptionsOf(Take(DrawnFrom, n))))}
    IN  IF listed = {} THEN 0 ELSE CHOOSE n \in listed : \A m \in listed : m <= n

\* the summary ends by stating that k further conditions exist
StatesAdditional(summary, k) ==
    \/ EndsWith(summary, <<" ", "a", "n", "d", " ">> \o IntChars(k)
            \o <<" ", "a", "d", "d", "i", "t", "i", "o", "n", "a", "l", " ", "c", "o", "n", "d", "i", "t", "i", "o", "n", "(", "s", ")">>)
    \/ EndsWith(summary, <<" ", "a", "n", "d", " ">> \o IntChars(k)
            \o <<" ", "a", "d", "d", "i", "t", "i", "o", "n", "a", "l", " ", "a", "c", "t", "i", "v", "e", " ", "c", "o", "n", "d", "i", "t", "i", "o", "n", "(", "s", ")">>)

\* C24: a summary that names fewer conditions than it was drawn from ends with
\* a suffix stating how many more there are, the number stated and the number
\* named adding up to the number it was drawn from; a summary that names them
\* all has no such suffix. This holds for patients with active conditions and
\* for Synthea patients whose conditions are all resolved.
SummaryStatesTruncation ==
    (narrative.outcome = "doc" /\ subject.conditions # <<>>) =>
        LET named == NamedIn(narrative.summary)
        IN  /\ named >= 1
            /\ named < Len(DrawnFrom) =>
                    StatesAdditional(narrative.summary, Len(DrawnFrom) - named)
            /\ named = Len(DrawnFrom) =>
                    ~Contains(narrative.summary, <<" ", "a", "d", "d", "i", "t", "i", "o", "n", "a", "l", " ">>)

\* C29: the summary of every MIMIC patient past the age gate, the newborn of
\* age 0 included, starts with the computed age followed by "-year-old"; the
\* word "adult" never stands in for a computed age.
SummaryStartsWithAge ==
    (narrative.outcome = "doc" /\ subject.dialect = "mimic") =>
        /\ StartsWith(narrative.summary,
                      IntChars(subject.age) \o <<"-", "y", "e", "a", "r", "-", "o", "l", "d">>)
        /\ ~StartsWith(narrative.summary, <<"a", "d", "u", "l", "t">>)
-----------------------------------------------------------------------------
(* Properties of the statistics of the enhanced patient readers *)

\* C25: whenever the consumer of a patient reader has received k documents from
\* it, and in particular when it stops iterating right after the k-th, the
\* patients_processed counter of the processor equals k. Stated for the first
\* pass on a processor, whose counters start at zero.
ProcessedEqualsDelivered ==
    consumer.first => stats.patients_processed = consumer.received
\* the first pass on a processor has been consumed to its end
FullyConsumed == consumer.first /\ gen = "ended" /\ ~consumer.stopped

\* C26: after the patient pass has been consumed to its end on a fresh
\* processor over a patients table of N rows, the MIMIC counters satisfy
\* patients_processed + invalid_age + processing_errors = N and the Synthea
\* counters patients_processed + patient_processing_errors = N with
\* error_count = patient_processing_errors; patients_processed is the number
\* of documents yielded, and every row is counted by exactly one counter: while
\* the pass runs, the counters add up to the rows gone through.
RecordAccounting ==
    /\ FullyConsumed =>
            /\ stats.patients_processed = consumer.received
            /\ dialect = "mimic" =>
                    /\ stats.patients_processed + stats.invalid_age
                       + stats.processing_errors = rows
                    /\ stats.patient_processing_errors = 0
                    /\ error_count = 0
            /\ dialect = "synthea" =>
                    /\ stats.patients_processed + stats.patient_processing_errors = rows
                    /\ error_count = stats.patient_processing_errors
                    /\ stats.invalid_age = 0
                    /\ stats.processing_errors = 0
    /\ (consumer.first /\ gen = "loop") => Counted = rowsDone

\* a fresh MIMIC processor has gone through a table of three rows: one document,
\* one row outside the age gate, one row that raised
RecordAccountingWitness ==
    /\ FullyConsumed
    /\ dialect = "mimic"
    /\ rows = 3
    /\ stats.patients_processed = 1
    /\ stats.invalid_age = 1
    /\ stats.processing_errors = 1
    /\ consumer.received = 1
-----------------------------------------------------------------------------
(* Properties of the medication records *)

\* the drug of the table whose name the description begins with, 0 when none
LeadingDrug(desc) ==
    LET named == {i \in 1..Len(MedClasses) :
                     /\ Len(desc) >= Len(MedClasses[i].med)
                     /\ Lower(SubSeq(desc, 1, Len(MedClasses[i].med))) = MedClasses[i].med}
    IN  IF named = {} THEN 0 ELSE CHOOSE i \in named : TRUE

\* the entries of the care gap list found with the medication
GapsFound ==
    {processed_medication.care_gaps[i] : i \in 1..Len(processed_medication.care_gaps)}

\* C28: a medications row whose DESCRIPTION begins with a drug name of the
\* class table, in any case and followed by a strength and form such as
\* "5 MG Oral Tablet", is assembled with that drug's class and never with
\* 'Unknown'; hence a patient with hypertension whose row names amlodipine or
\* lisinopril has no hypertension gap, and a patient with diabetes whose row
\* names metformin or insulin has no diabetes gap.
ListedDrugGetsItsClass ==
    (processed_medication.outcome = "record" /\ LeadingDrug(medication_row.DESCRIPTION) # 0) =>
        LET drug == MedClasses[LeadingDrug(medication_row.DESCRIPTION)]
        IN  /\ processed_medication.medication.medication_class = drug.med_class
            /\ drug.med \in {<<"a", "m", "l", "o", "d", "i", "p", "i", "n", "e">>,
                             <<"l", "i", "s", "i", "n", "o", "p", "r", "i", "l">>}
                   => "hypertension_without_medication" \notin GapsFound
            /\ drug.med \in {<<"m", "e", "t", "f", "o", "r", "m", "i", "n">>,
                             <<"i", "n", "s", "u", "l", "i", "n">>}
                   => "diabetes_without_medication" \notin GapsFound
-----------------------------------------------------------------------------
(* Properties of the documents *)

\* C22: every document a reader of either dialect yields, a patient, a clinical
\* note or a lab result, from the enhanced processors or from the processors
\* wired into main, includes the six fields id, type, source, timestamp, title
\* and summary.
SixCommonFields ==
    document # NoDocument =>
        {"id", "type", "source", "timestamp", "title", "summary"} \subseteq DOMAIN document

\* the enhanced lab reader has yielded the document of a row without CHARTTIME
SixCommonFieldsWitness ==
    /\ document # NoDocument
    /\ source_row.reader = "enhanced_mimic_labs"
    /\ ~source_row.charted
    /\ document["timestamp"] = None
    /\ "interpretation" \in DOMAIN document

\* a sample row of the Synthea patients table, as the enhanced reader meets it
SampleSyntheaRow ==
    [reader |-> "enhanced_synthea_patients", anonymize |-> FALSE, key |-> 1,
     person |-> 1, GENDER |-> "F", ROW_ID |-> 0, charted |-> TRUE]

\* C23: the patient documents of the MIMIC processor and of the Synthea
\* processor carry the same set of top-level fields, and that set includes
\* conditions, medications, vital_signs, lab_results, encounters_summary,
\* risk_profile, complexity_score and care_gaps.
CanonicalPatientShape ==
    (document # NoDocument
     /\ source_row.reader \in {"enhanced_mimic_patients", "enhanced_synthea_patients"}) =>
        /\ DOMAIN document = DOMAIN EnhancedSyntheaPatientDocument(SampleSyntheaRow, clock)
        /\ {"conditions", "medications", "vital_signs", "lab_results",
            "encounters_summary", "risk_profile", "complexity_score", "care_gaps"}
               \subseteq DOMAIN document

\* the values at the leaves of a document or of a part of it
RECURSIVE Leaves(_)
Leaves(value) ==
    IF "kind" \in DOMAIN value THEN {value}
    ELSE UNION {Leaves(value[f]) : f \in DOMAIN value}

\* the literal prefixes the readers put before a key
IdPrefixes == {"patient_", "synthea_patient_", "pat_", "lab_", "note_"}

\* the value holds the text `key` verbatim
HoldsVerbatim(leaf, key) ==
    /\ leaf.kind = "str"
    /\ \E i \in 1..Len(leaf.text) :
            \/ leaf.text[i] = key
            \/ \E prefix \in IdPrefixes : leaf.text[i] = prefix \o key

\* the id the processor gave the patient of the row
PatientIdOf(row) ==
    IF ReaderDialect(row.reader) = "mimic"
    THEN MimicPatientId(RowKey(row), row.anonymize)
    ELSE SyntheaPatientId(RowKey(row), row.anonymize)

\* the top-level fields built from the patient id of the row
FieldsFromId(doc, row) ==
    {f \in DOMAIN doc :
        \E leaf \in Leaves(doc[f]) :
            /\ leaf.kind = "str"
            /\ \E i \in 1..Len(leaf.text) : leaf.text[i] = PatientIdOf(row)}

\* the rows that differ from `row` in the natural key and the identifiers only
SameButForIdentity(row) ==
    {other \in DocumentRows :
        /\ other.reader = row.reader
        /\ other.anonymize = row.anonymize
        /\ other.GENDER = row.GENDER
        /\ other.ROW_ID = row.ROW_ID
        /\ other.charted = row.charted}

\* C30: a document of a processor constructed with anonymize=True holds the
\* natural key of its row (SUBJECT_ID, Synthea Id) in no field, and its direct
\* identifiers are null (date_of_birth; ssn, drivers_license, passport); the
\* documents of two rows that differ only in the natural key and the direct
\* identifiers differ only in the hashed id and the fields built from it.
AnonymizedDocumentHidesIdentity ==
    (document # NoDocument /\ source_row.anonymize) =>
        /\ \A leaf \in Leaves(document) : ~HoldsVerbatim(leaf, RowKeyText(source_row))
        /\ source_row.reader = "enhanced_mimic_patients" =>
                document["demographics"].date_of_birth = None
        /\ source_row.reader = "enhanced_synthea_patients" =>
                /\ document["demographics"].ssn = None
                /\ document["demographics"].drivers_license = None
                /\ document["demographics"].passport = None
        /\ \A other \in SameButForIdentity(source_row) :
                \A f \in DOMAIN document :
                    document[f] # DocumentOf(other, clock)[f]
                        => f \in FieldsFromId(document, source_row)
====
